---- MODULE Spec2Model ----
(***************************************************************************)
(* A model of the agentic sampling loop of click-repeat-server             *)
(* (src/loop.py), its two conversation policies (image retention and       *)
(* prompt-cache breakpoints), the tool dispatch of one assistant turn and  *)
(* the two callers that drive it (src/bash.py, src/fastapi_app.py).        *)
(*                                                                         *)
(* Three specifications share the variables:                               *)
(*   Spec        the session: caller, sampling_loop, dispatch              *)
(*   SpecFilter  _maybe_filter_to_n_most_recent_images on bounded inputs   *)
(*   SpecCache   _inject_prompt_caching on bounded inputs                  *)
(***************************************************************************)
EXTENDS Integers, Sequences, FiniteSets, TLC

VARIABLES
    mode,                 \* which caller runs the loop, and how tools are executed
    provider,             \* sampling_loop's provider argument
    only_n,               \* sampling_loop's only_n_most_recent_images argument
    messages,             \* the conversation (one list object, mutated in place)
    pc,                   \* position of the caller / of sampling_loop
    request,              \* the conversation as last sent to the model
    response_params,      \* content of the assistant message of the current turn
    idx,                  \* position of the `for content_block` loop (1-based)
    tool_result_content,  \* tool_result blocks collected in the current turn
    inflight,             \* block positions whose tool execution has not returned
    started,              \* block positions whose tool execution has been started
    lastExit,             \* how the last run of sampling_loop ended
    calls,                \* model calls made by the current run
    runStartLen,          \* len(messages) when the current run was entered
    lastAppend,           \* the conversation right after the last append
    errorsObserved,       \* api_response_callback invocations with an exception, this run
    nextId,               \* source of fresh tool_use ids / screenshot payloads
    totalCalls,           \* model calls made in the session (bounded)
    callerRef,            \* the list object the caller's `messages` names
    before,               \* SpecFilter/SpecCache: the argument before the call
    keepArg,              \* SpecFilter: images_to_keep
    chunkArg,             \* SpecFilter: min_removal_threshold
    toolInput,            \* SpecTool/SpecResult: the arguments of the call
    toolOutput            \* SpecTool/SpecResult: what the call produced

vars == << mode, provider, only_n, messages, pc, request, response_params, idx,
           tool_result_content, inflight, started, lastExit, calls, runStartLen,
           lastAppend, errorsObserved, nextId, totalCalls, callerRef,
           before, keepArg, chunkArg, toolInput, toolOutput >>

loopVars == << mode, provider, only_n, request, response_params, idx,
               tool_result_content, inflight, started, lastExit, calls,
               runStartLen, lastAppend, errorsObserved, nextId, totalCalls,
               callerRef >>

(***************************************************************************)
(* Bounds of the model.                                                    *)
(***************************************************************************)
MaxCalls == 2        \* model calls per session
MaxBlocks == 2       \* content blocks per model response
MaxToolUses == 3     \* tool_use blocks per session
MaxKeepConf == 2     \* largest only_n_most_recent_images a session is given
MaxFilterMsgs == 2   \* SpecFilter: messages per conversation
MaxSub == 2          \* SpecFilter: sub-blocks per tool_result
MaxKeep == 2         \* SpecFilter: largest images_to_keep
MaxChunk == 2        \* SpecFilter: largest min_removal_threshold
MaxCacheMsgs == 5    \* SpecCache: messages per conversation

(***************************************************************************)
(* Program constants.                                                      *)
(***************************************************************************)
Breakpoints == 3     \* breakpoints_remaining = 3
ListId == 1          \* identity of the list object the caller creates

(***************************************************************************)
(* Data model.  Every content block is a record with the same fields; a    *)
(* string is modelled as the sequence of the pieces it is formatted from.  *)
(***************************************************************************)
TextSub(t) == [type |-> "text", text |-> t, data |-> 0]
ImageSub(d) == [type |-> "image", text |-> << >>, data |-> d]

Block(t, i, l, c, s, e) ==
    [type |-> t, id |-> i, isList |-> l, content |-> c, text |-> s,
     is_error |-> e, cc |-> FALSE]

TextBlock(s) == Block("text", 0, FALSE, << >>, s, FALSE)
ThinkingBlock == Block("thinking", 0, FALSE, << >>, << "thinking" >>, FALSE)
ToolUseBlock(i) == Block("tool_use", i, FALSE, << >>, << >>, FALSE)

Message(r, l, c) == [role |-> r, isList |-> l, content |-> c]

\* A ToolResult: "" is an absent or empty string, 0 an absent image.
ToolResult(o, e, img, sys) == [output |-> o, error |-> e, base64_image |-> img, system |-> sys]

SeqsUpTo(S, n) == UNION { [1..k -> S] : k \in 0..n }

(***************************************************************************)
(* _make_api_tool_result and _maybe_prepend_system_tool_result.            *)
(***************************************************************************)
\* A variant that leaves the system text out.
MaybePrependNothing(result, result_text) == << result_text >>

MaybePrependSystemToolResult(result, result_text) ==
    IF result.system # ""
    THEN << "<system>", result.system, "</system>\n", result_text >>
    ELSE << result_text >>

\* A variant that serialises output and image whether or not there is an error.
MakeApiToolResultKeepsPayload(result, tool_use_id) ==
    Block("tool_result", tool_use_id, TRUE,
          (IF result.output # ""
           THEN << TextSub(MaybePrependSystemToolResult(result, result.output)) >>
           ELSE << >>)
          \o (IF result.base64_image # 0
              THEN << ImageSub(result.base64_image) >>
              ELSE << >>),
          IF result.error # ""
          THEN MaybePrependSystemToolResult(result, result.error)
          ELSE << >>,
          result.error # "")

MakeApiToolResult(result, tool_use_id) ==
    IF result.error # ""
    THEN Block("tool_result", tool_use_id, FALSE, << >>,
               MaybePrependSystemToolResult(result, result.error), TRUE)
    ELSE Block("tool_result", tool_use_id, TRUE,
               (IF result.output # ""
                THEN << TextSub(MaybePrependSystemToolResult(result, result.output)) >>
                ELSE << >>)
               \o (IF result.base64_image # 0
                   THEN << ImageSub(result.base64_image) >>
                   ELSE << >>),
               << >>, FALSE)

(***************************************************************************)
(* _maybe_filter_to_n_most_recent_images.                                  *)
(***************************************************************************)
\* The tool_result blocks of the conversation, in original order.
RECURSIVE ToolResultBlocks(_)
ToolResultBlocks(msgs) ==
    IF msgs = << >> THEN << >>
    ELSE (IF Head(msgs).isList
          THEN SelectSeq(Head(msgs).content, LAMBDA b : b.type = "tool_result")
          ELSE << >>)
         \o ToolResultBlocks(Tail(msgs))

RECURSIVE CountImagesIn(_)
CountImagesIn(content) ==
    IF content = << >> THEN 0
    ELSE (IF Head(content).type = "image" THEN 1 ELSE 0) + CountImagesIn(Tail(content))

\* total_images: a string content holds no image dict.
RECURSIVE SumImages(_)
SumImages(blocks) ==
    IF blocks = << >> THEN 0
    ELSE (IF Head(blocks).isList THEN CountImagesIn(Head(blocks).content) ELSE 0)
         + SumImages(Tail(blocks))

TotalImages(msgs) == SumImages(ToolResultBlocks(msgs))

\* A variant that removes as many images as it is asked to keep.
ImagesToRemoveKeepCount(total_images, images_to_keep, min_removal_threshold) ==
    images_to_keep

\* A variant without the rounding to chunks.
ImagesToRemoveMissRounding(total_images, images_to_keep, min_removal_threshold) ==
    total_images - images_to_keep

\* images_to_remove after the rounding to chunks; Python's % has the sign of
\* the divisor, as TLA+'s % for a positive divisor.
ImagesToRemove(total_images, images_to_keep, min_removal_threshold) ==
    (total_images - images_to_keep)
    - ((total_images - images_to_keep) % min_removal_threshold)

\* A variant of the inner loop that walks the content from its end.
RECURSIVE FilterContentFromEnd(_, _)
FilterContentFromEnd(content, n) ==
    IF content = << >> THEN [out |-> << >>, n |-> n]
    ELSE LET last == content[Len(content)]
             init == SubSeq(content, 1, Len(content) - 1)
         IN IF last.type = "image" /\ n > 0
            THEN FilterContentFromEnd(init, n - 1)
            ELSE LET r == FilterContentFromEnd(init, n)
                 IN [out |-> Append(r.out, last), n |-> r.n]

\* The inner loop over one tool_result's content: drops images while the
\* counter is positive.  Returns the new content and the counter.
RECURSIVE FilterContent(_, _)
FilterContent(content, n) ==
    IF content = << >> THEN [out |-> << >>, n |-> n]
    ELSE IF Head(content).type = "image" /\ n > 0
         THEN FilterContent(Tail(content), n - 1)
         ELSE LET r == FilterContent(Tail(content), n)
              IN [out |-> << Head(content) >> \o r.out, n |-> r.n]

\* The loop over the tool_result blocks of one message.
RECURSIVE FilterBlocks(_, _)
FilterBlocks(blocks, n) ==
    IF blocks = << >> THEN [out |-> << >>, n |-> n]
    ELSE IF Head(blocks).type = "tool_result" /\ Head(blocks).isList
         THEN LET c == FilterContent(Head(blocks).content, n)
                  r == FilterBlocks(Tail(blocks), c.n)
              IN [out |-> << [Head(blocks) EXCEPT !.content = c.out] >> \o r.out,
                  n |-> r.n]
         ELSE LET r == FilterBlocks(Tail(blocks), n)
              IN [out |-> << Head(blocks) >> \o r.out, n |-> r.n]

RECURSIVE FilterMessages(_, _)
FilterMessages(msgs, n) ==
    IF msgs = << >> THEN << >>
    ELSE IF Head(msgs).isList
         THEN LET b == FilterBlocks(Head(msgs).content, n)
              IN << [Head(msgs) EXCEPT !.content = b.out] >>
                 \o FilterMessages(Tail(msgs), b.n)
         ELSE << Head(msgs) >> \o FilterMessages(Tail(msgs), n)

\* A variant that never removes an image.
MaybeFilterKeepAll(msgs, images_to_keep, min_removal_threshold) == msgs

MaybeFilterToNMostRecentImages(msgs, images_to_keep, min_removal_threshold) ==
    FilterMessages(msgs,
        ImagesToRemove(TotalImages(msgs), images_to_keep, min_removal_threshold))

\* A variant of the pruning step without the guard on the keep count.
PruningStepUnguarded(msgs, only_n_most_recent_images, image_truncation_threshold) ==
    MaybeFilterToNMostRecentImages(msgs, only_n_most_recent_images,
                                   image_truncation_threshold)

\* The pruning step of an iteration: `if only_n_most_recent_images:` guards
\* the call, so a keep count of 0 leaves the conversation alone.
PruningStep(msgs, only_n_most_recent_images, image_truncation_threshold) ==
    IF only_n_most_recent_images # 0
    THEN MaybeFilterToNMostRecentImages(msgs, only_n_most_recent_images,
                                        image_truncation_threshold)
    ELSE msgs

(***************************************************************************)
(* _inject_prompt_caching.                                                 *)
(***************************************************************************)
\* A variant that annotates the first content block instead of the last.
SetCacheControlFirstBlock(msgs, i, v) ==
    [msgs EXCEPT ![i].content[1].cc = v]

\* content[-1]["cache_control"] = ... / content[-1].pop("cache_control", None)
SetCacheControl(msgs, i, v) ==
    [msgs EXCEPT ![i].content[Len(msgs[i].content)].cc = v]

\* The `for message in reversed(messages)` loop from position i downwards.
RECURSIVE InjectFrom(_, _, _)
InjectFrom(msgs, i, breakpoints_remaining) ==
    IF i = 0 THEN msgs
    ELSE IF msgs[i].role = "user" /\ msgs[i].isList
         THEN IF breakpoints_remaining > 0
              THEN InjectFrom(SetCacheControl(msgs, i, TRUE), i - 1,
                              breakpoints_remaining - 1)
              ELSE SetCacheControl(msgs, i, FALSE)
         ELSE InjectFrom(msgs, i - 1, breakpoints_remaining)

\* A variant that stops after the last breakpoint without clearing the next one.
InjectPromptCachingNoClear(msgs) ==
    LET RECURSIVE Go(_, _, _)
        Go(m, i, r) ==
            IF i = 0 \/ r = 0 THEN m
            ELSE IF m[i].role = "user" /\ m[i].isList
                 THEN Go(SetCacheControl(m, i, TRUE), i - 1, r - 1)
                 ELSE Go(m, i - 1, r)
    IN Go(msgs, Len(msgs), Breakpoints)

InjectPromptCaching(msgs) == InjectFrom(msgs, Len(msgs), Breakpoints)

(***************************************************************************)
(* _response_to_params.  A response block is [kind, id]; kind "empty" is a *)
(* text block whose text is the empty string.                              *)
(***************************************************************************)
\* A variant that keeps the tool_use blocks only.
ResponseToParamsToolsOnly(content) ==
    LET uses == SelectSeq(content, LAMBDA block : block.kind = "tool_use")
    IN [i \in 1..Len(uses) |-> ToolUseBlock(uses[i].id)]

RECURSIVE ResponseToParams(_)
ResponseToParams(content) ==
    IF content = << >> THEN << >>
    ELSE LET block == Head(content)
             rest == ResponseToParams(Tail(content))
         IN IF block.kind \in {"text", "empty"}
            THEN IF block.kind = "text"
                 THEN << TextBlock(<< "text" >>) >> \o rest
                 ELSE rest
            ELSE IF block.kind = "tool_use"
                 THEN << ToolUseBlock(block.id) >> \o rest
                 ELSE << ThinkingBlock >> \o rest

(***************************************************************************)
(* The callers and the session configuration.                              *)
(*   server_side  bash.py main (--recent-images 3 by default, or 1), or    *)
(*                websocket_endpoint with DEBUG true: ToolCollection.run   *)
(*                runs the tools                                           *)
(*   client_side  websocket_endpoint with DEBUG false: every tool call is  *)
(*                sent to the websocket client                             *)
(*   direct       sampling_loop driven the same way with a non-caching     *)
(*                provider (the provider parameter's other branches) and   *)
(*                a positive only_n_most_recent_images                     *)
(***************************************************************************)
RecentImages == 3

Configs ==
    { [mode |-> m, provider |-> "anthropic", only_n |-> RecentImages] :
        m \in {"server_side", "client_side"} }
    \cup { [mode |-> "server_side", provider |-> "anthropic", only_n |-> 1] }
    \cup { [mode |-> "direct", provider |-> "bedrock", only_n |-> n] :
             n \in 1..MaxKeepConf }

UserTextMessage == Message("user", TRUE, << TextBlock(<< "input" >>) >>)

\* What the model endpoint may answer: 1..MaxBlocks blocks, tool_use ids fresh.
ResponseKinds == {"text", "empty", "tool_use"}

Responses(base) ==
    UNION { { [i \in 1..n |->
                  [kind |-> ks[i],
                   id |-> base + Cardinality({ j \in 1..i : ks[j] = "tool_use" })]] :
                ks \in [1..n -> ResponseKinds] } : n \in 1..MaxBlocks }

ToolPositions(params) == { i \in 1..Len(params) : params[i].type = "tool_use" }

ToolUseIds(params) ==
    LET uses == SelectSeq(params, LAMBDA b : b.type = "tool_use")
    IN [i \in 1..Len(uses) |-> uses[i].id]

(***************************************************************************)
(* One tool execution as sampling_loop sees it.                            *)
(***************************************************************************)
\* How a call of the screen-control adapter can end.
AdapterOutcomes ==
    { "result_with_screenshot",   \* make_result, screenshot attached
      "result",                   \* make_result(take_screenshot=False)
      "screenshot_failed",        \* make_result swallows the capture failure
      "ToolError",                \* validation failure or wrapped actuator failure
      "Exception" }               \* actuator failure raised unwrapped

AdapterResult(outcome, shot) ==
    CASE outcome = "result_with_screenshot" -> ToolResult("out", "", shot, "")
      [] outcome = "result" -> ToolResult("out", "", 0, "")
      [] outcome = "screenshot_failed" -> ToolResult("out", "", 0, "")

\* What the adapter hands to ToolCollection.run: a ToolResult, or an
\* exception with its message.
AdapterOutcome(outcome, shot) ==
    IF outcome \in {"ToolError", "Exception"}
    THEN [kind |-> outcome, error |-> "err", result |-> ToolResult("", "", 0, "")]
    ELSE [kind |-> "result", error |-> "", result |-> AdapterResult(outcome, shot)]

\* ToolCollection.run: a failure of the adapter becomes an error ToolResult
\* carrying the failure's message.
ToolCollectionRun(o) ==
    IF o.kind \in {"ToolError", "Exception"}
    THEN ToolResult("", o.error, 0, "")
    ELSE o.result

\* client_side_tool_execution: the ToolResult parsed from the client's reply.
ClientOutcomes == {"client_result_with_screenshot", "client_error", "client_empty"}

ClientSideToolExecution(outcome, shot) ==
    CASE outcome = "client_result_with_screenshot" -> ToolResult("out", "", shot, "")
      [] outcome = "client_error" -> ToolResult("", "err", 0, "sys")
      [] outcome = "client_empty" -> ToolResult("", "", 0, "")

ClientSide == mode = "client_side"

(***************************************************************************)
(* The session: initial state.                                             *)
(***************************************************************************)
Init ==
    /\ \E c \in Configs :
          /\ mode = c.mode
          /\ provider = c.provider
          /\ only_n = c.only_n
    /\ messages = << >>
    /\ pc = "await_user"
    /\ request = << >>
    /\ response_params = << >>
    /\ idx = 1
    /\ tool_result_content = << >>
    /\ inflight = {}
    /\ started = {}
    /\ lastExit = "none"
    /\ calls = 0
    /\ runStartLen = 0
    /\ lastAppend = << >>
    /\ errorsObserved = 0
    /\ nextId = 0
    /\ totalCalls = 0
    /\ callerRef = ListId
    /\ before = << >>
    /\ keepArg = 0
    /\ chunkArg = 0
    /\ toolInput = << >>
    /\ toolOutput = << >>

(***************************************************************************)
(* sampling_loop, one action per step between two suspension points.       *)
(***************************************************************************)
\* A variant that keeps the configured keep count when caching is enabled.
ApplyPoliciesKeepCount(msgs) ==
    LET enable_prompt_caching == provider = "anthropic"
        image_truncation_threshold == only_n
        cached == IF enable_prompt_caching THEN InjectPromptCaching(msgs) ELSE msgs
    IN PruningStep(cached, only_n, image_truncation_threshold)

\* The head of an iteration: cache breakpoints, then image retention.
ApplyPolicies(msgs) ==
    LET enable_prompt_caching == provider = "anthropic"
        image_truncation_threshold == only_n
        cached == IF enable_prompt_caching THEN InjectPromptCaching(msgs) ELSE msgs
        only_n_most_recent_images == IF enable_prompt_caching THEN 0 ELSE only_n
    IN PruningStep(cached, only_n_most_recent_images, image_truncation_threshold)

\* The caller: append one user text message, then run sampling_loop on the list.
UserTurn ==
    /\ pc = "await_user"
    /\ totalCalls < MaxCalls
    /\ messages' = Append(messages, UserTextMessage)
    /\ lastAppend' = messages'
    /\ runStartLen' = Len(messages')
    /\ pc' = "loop_top"
    /\ calls' = 0
    /\ errorsObserved' = 0
    /\ lastExit' = "running"
    /\ started' = {}
    /\ UNCHANGED << mode, provider, only_n, request, response_params, idx,
                    tool_result_content, inflight, nextId, totalCalls, callerRef,
                    before, keepArg, chunkArg, toolInput, toolOutput >>

\* Policies applied in place, request sent: the loop suspends on the model call.
SendRequest ==
    /\ pc = "loop_top"
    /\ totalCalls < MaxCalls
    /\ messages' = ApplyPolicies(messages)
    /\ request' = messages'
    /\ calls' = calls + 1
    /\ totalCalls' = totalCalls + 1
    /\ pc' = "awaiting_model"
    /\ UNCHANGED << mode, provider, only_n, response_params, idx,
                    tool_result_content, inflight, started, lastExit, runStartLen,
                    lastAppend, errorsObserved, nextId, callerRef,
                    before, keepArg, chunkArg, toolInput, toolOutput >>

\* The value of `return messages`: the list object that was passed in.
ReturnCopy == callerRef + 1

ReturnValue == callerRef

\* A variant that undoes the last append before returning.
ModelErrorRollback ==
    /\ pc = "awaiting_model"
    /\ errorsObserved' = errorsObserved + 1
    /\ messages' = SubSeq(messages, 1, Len(messages) - 1)
    /\ lastExit' = "provider_error"
    /\ callerRef' = ReturnValue
    /\ pc' = "await_user"
    /\ UNCHANGED << mode, provider, only_n, request, response_params, idx,
                    tool_result_content, inflight, started, calls, runStartLen,
                    lastAppend, nextId, totalCalls,
                    before, keepArg, chunkArg, toolInput, toolOutput >>

\* except (APIStatusError, APIResponseValidationError) / except APIError:
\* the callback gets the exception, the loop returns the list.
ModelError ==
    /\ pc = "awaiting_model"
    /\ errorsObserved' = errorsObserved + 1
    /\ lastExit' = "provider_error"
    /\ callerRef' = ReturnValue
    /\ pc' = "await_user"
    /\ UNCHANGED << mode, provider, only_n, messages, request, response_params, idx,
                    tool_result_content, inflight, started, calls, runStartLen,
                    lastAppend, nextId, totalCalls,
                    before, keepArg, chunkArg, toolInput, toolOutput >>

\* A parsed response: the assistant message is appended, dispatch begins.
ModelResponds ==
    /\ pc = "awaiting_model"
    /\ \E response \in Responses(nextId) :
          /\ response_params' = ResponseToParams(response)
          /\ nextId' = nextId + Cardinality(ToolPositions(response_params'))
          /\ nextId' <= MaxToolUses
    /\ messages' = Append(messages, Message("assistant", TRUE, response_params'))
    /\ lastAppend' = messages'
    /\ idx' = 1
    /\ tool_result_content' = << >>
    /\ started' = {}
    /\ pc' = "dispatch"
    /\ UNCHANGED << mode, provider, only_n, request, inflight, lastExit, calls,
                    runStartLen, errorsObserved, totalCalls, callerRef,
                    before, keepArg, chunkArg, toolInput, toolOutput >>

\* output_callback on a block that is no tool_use: on to the next block.
ObserveBlock ==
    /\ pc = "dispatch"
    /\ inflight = {}
    /\ idx <= Len(response_params)
    /\ response_params[idx].type # "tool_use"
    /\ idx' = idx + 1
    /\ UNCHANGED << mode, provider, only_n, messages, pc, request, response_params,
                    tool_result_content, inflight, started, lastExit, calls,
                    runStartLen, lastAppend, errorsObserved, nextId, totalCalls,
                    callerRef, before, keepArg, chunkArg, toolInput, toolOutput >>

\* A variant that starts every tool of the turn without awaiting the previous one.
MayStartConcurrently(i) ==
    /\ i \in ToolPositions(response_params)
    /\ i >= idx
    /\ i \notin started

\* The for loop reaches block i and awaits its execution.
MayStart(i) ==
    /\ i \in ToolPositions(response_params)
    /\ i = idx
    /\ inflight = {}
    /\ i \notin started

StartTool ==
    /\ pc = "dispatch"
    /\ \E i \in 1..Len(response_params) :
          /\ MayStart(i)
          /\ inflight' = inflight \cup {i}
          /\ started' = started \cup {i}
    /\ UNCHANGED << mode, provider, only_n, messages, pc, request, response_params,
                    idx, tool_result_content, lastExit, calls, runStartLen,
                    lastAppend, errorsObserved, nextId, totalCalls, callerRef,
                    before, keepArg, chunkArg, toolInput, toolOutput >>

\* The execution returns a ToolResult; its tool_result block is collected.
ToolReturns ==
    /\ pc = "dispatch"
    /\ \E i \in inflight :
          /\ \E o \in (IF ClientSide THEN ClientOutcomes ELSE AdapterOutcomes) :
                LET shot == response_params[i].id
                    result == IF ClientSide
                              THEN ClientSideToolExecution(o, shot)
                              ELSE ToolCollectionRun(AdapterOutcome(o, shot))
                IN tool_result_content' =
                        Append(tool_result_content,
                               MakeApiToolResult(result, response_params[i].id))
          /\ inflight' = inflight \ {i}
          /\ idx' = i + 1
    /\ UNCHANGED << mode, provider, only_n, messages, pc, request, response_params,
                    started, lastExit, calls, runStartLen, lastAppend,
                    errorsObserved, nextId, totalCalls, callerRef,
                    before, keepArg, chunkArg, toolInput, toolOutput >>

\* A variant that appends the tool results collected so far before the
\* exception leaves the loop.
ToolRaisesAppendsPartial ==
    /\ pc = "dispatch"
    /\ ClientSide
    /\ \E i \in inflight : inflight' = inflight \ {i}
    /\ messages' = IF tool_result_content = << >>
                   THEN messages
                   ELSE Append(messages, Message("user", TRUE, tool_result_content))
    /\ lastExit' = "exception"
    /\ pc' = "await_user"
    /\ UNCHANGED << mode, provider, only_n, request, response_params, idx,
                    tool_result_content, started, calls, runStartLen, lastAppend,
                    errorsObserved, nextId, totalCalls, callerRef,
                    before, keepArg, chunkArg, toolInput, toolOutput >>

\* client_side_tool_execution: receive_json raises (the client's frame is no
\* JSON, or the socket fails).  Nothing in sampling_loop catches it; the
\* websocket endpoint logs it and waits for the next text frame.
ToolRaises ==
    /\ pc = "dispatch"
    /\ ClientSide
    /\ \E i \in inflight : inflight' = inflight \ {i}
    /\ lastExit' = "exception"
    /\ pc' = "await_user"
    /\ UNCHANGED << mode, provider, only_n, messages, request, response_params, idx,
                    tool_result_content, started, calls, runStartLen, lastAppend,
                    errorsObserved, nextId, totalCalls, callerRef,
                    before, keepArg, chunkArg, toolInput, toolOutput >>

\* The terminal client is interrupted while sampling_loop is in its dispatch
\* phase (awaiting a tool or a callback): the KeyboardInterrupt passes through
\* sampling_loop, which has no handler around the dispatch, and main() prints
\* "Exiting..." and returns.
Interrupt ==
    /\ pc = "dispatch"
    /\ mode = "server_side"
    /\ inflight' = {}
    /\ lastExit' = "interrupt"
    /\ pc' = "exited"
    /\ UNCHANGED << mode, provider, only_n, messages, request, response_params, idx,
                    tool_result_content, started, calls, runStartLen, lastAppend,
                    errorsObserved, nextId, totalCalls, callerRef,
                    before, keepArg, chunkArg, toolInput, toolOutput >>

\* A variant that appends the (empty) tool_result message before returning.
ReturnCleanAfterAppend ==
    /\ pc = "dispatch"
    /\ inflight = {}
    /\ idx > Len(response_params)
    /\ tool_result_content = << >>
    /\ messages' = Append(messages, Message("user", TRUE, tool_result_content))
    /\ lastExit' = "clean"
    /\ callerRef' = ReturnValue
    /\ pc' = "await_user"
    /\ UNCHANGED << mode, provider, only_n, request, response_params, idx,
                    tool_result_content, inflight, started, calls, runStartLen,
                    lastAppend, errorsObserved, nextId, totalCalls,
                    before, keepArg, chunkArg, toolInput, toolOutput >>

\* if not tool_result_content: return messages
ReturnClean ==
    /\ pc = "dispatch"
    /\ inflight = {}
    /\ idx > Len(response_params)
    /\ tool_result_content = << >>
    /\ lastExit' = "clean"
    /\ callerRef' = ReturnValue
    /\ pc' = "await_user"
    /\ UNCHANGED << mode, provider, only_n, messages, request, response_params, idx,
                    tool_result_content, inflight, started, calls, runStartLen,
                    lastAppend, errorsObserved, nextId, totalCalls,
                    before, keepArg, chunkArg, toolInput, toolOutput >>

\* messages.append({"content": tool_result_content, "role": "user"}), next iteration
AppendToolResults ==
    /\ pc = "dispatch"
    /\ inflight = {}
    /\ idx > Len(response_params)
    /\ tool_result_content # << >>
    /\ messages' = Append(messages, Message("user", TRUE, tool_result_content))
    /\ lastAppend' = messages'
    /\ started' = {}
    /\ pc' = "loop_top"
    /\ UNCHANGED << mode, provider, only_n, request, response_params, idx,
                    tool_result_content, inflight, lastExit, calls,
                    runStartLen, errorsObserved, nextId, totalCalls, callerRef,
                    before, keepArg, chunkArg, toolInput, toolOutput >>

Next ==
    \/ UserTurn
    \/ SendRequest
    \/ ModelError
    \/ ModelResponds
    \/ ObserveBlock
    \/ StartTool
    \/ ToolReturns
    \/ ToolRaises
    \/ ReturnClean
    \/ AppendToolResults

Spec == Init /\ [][Next]_vars

\* The session with a caller that may be interrupted during the dispatch.
NextInterrupt == Next \/ Interrupt

SpecInterrupt == Init /\ [][NextInterrupt]_vars

(***************************************************************************)
(* SpecFilter: _maybe_filter_to_n_most_recent_images applied to every      *)
(* conversation of a bounded family, for every keep and chunk >= 1, and    *)
(* the guarded pruning step of sampling_loop for every keep >= 0.          *)
(***************************************************************************)
FilterToolResults ==
    { Block("tool_result", 1, FALSE, << >>, << "err" >>, TRUE) }
    \cup { Block("tool_result", 1, TRUE, c, << >>, FALSE) :
             c \in SeqsUpTo({TextSub(<< "out" >>), ImageSub(1)}, MaxSub) }

FilterMessageKinds ==
    { Message("assistant", TRUE, << ToolUseBlock(1) >>),
      Message("user", FALSE, << >>) }
    \cup { Message("user", TRUE, << TextBlock(<< "input" >>), b >>) : b \in FilterToolResults }

FilterConversations == SeqsUpTo(FilterMessageKinds, MaxFilterMsgs)

loopIdle ==
    /\ mode = "direct"
    /\ provider = "bedrock"
    /\ only_n = 0
    /\ request = << >>
    /\ response_params = << >>
    /\ idx = 1
    /\ tool_result_content = << >>
    /\ inflight = {}
    /\ started = {}
    /\ lastExit = "none"
    /\ calls = 0
    /\ runStartLen = 0
    /\ lastAppend = << >>
    /\ errorsObserved = 0
    /\ nextId = 0
    /\ totalCalls = 0
    /\ callerRef = ListId

\* Every screenshot has data of its own: the images of a conversation are
\* numbered in conversation order, from k + 1 on.
RECURSIVE NumberContent(_, _)
NumberContent(content, k) ==
    IF content = << >> THEN [out |-> << >>, k |-> k]
    ELSE IF Head(content).type = "image"
         THEN LET r == NumberContent(Tail(content), k + 1)
              IN [out |-> << ImageSub(k + 1) >> \o r.out, k |-> r.k]
         ELSE LET r == NumberContent(Tail(content), k)
              IN [out |-> << Head(content) >> \o r.out, k |-> r.k]

RECURSIVE NumberBlocks(_, _)
NumberBlocks(blocks, k) ==
    IF blocks = << >> THEN [out |-> << >>, k |-> k]
    ELSE LET c == NumberContent(Head(blocks).content, k)
             r == NumberBlocks(Tail(blocks), c.k)
         IN [out |-> << [Head(blocks) EXCEPT !.content = c.out] >> \o r.out, k |-> r.k]

RECURSIVE NumberImages(_, _)
NumberImages(msgs, k) ==
    IF msgs = << >> THEN << >>
    ELSE LET b == NumberBlocks(Head(msgs).content, k)
         IN << [Head(msgs) EXCEPT !.content = b.out] >> \o NumberImages(Tail(msgs), b.k)

InitFilter ==
    /\ loopIdle
    /\ messages \in { NumberImages(c, 0) : c \in FilterConversations }
    /\ before = messages
    /\ keepArg \in 0..MaxKeep
    /\ chunkArg \in 1..MaxChunk
    /\ toolInput = << >>
    /\ toolOutput = << >>
    /\ pc = "filter_input"

\* The function as sampling_loop calls it: with a positive keep count.
ApplyFilter ==
    /\ pc = "filter_input"
    /\ keepArg >= 1
    /\ messages' = MaybeFilterToNMostRecentImages(messages, keepArg, chunkArg)
    /\ pc' = "filter_done"
    /\ UNCHANGED << loopVars, before, keepArg, chunkArg, toolInput, toolOutput >>

\* The pruning step of an iteration, whatever the keep count.
ApplyPruningStep ==
    /\ pc = "filter_input"
    /\ messages' = PruningStep(messages, keepArg, chunkArg)
    /\ pc' = "pruning_done"
    /\ UNCHANGED << loopVars, before, keepArg, chunkArg, toolInput, toolOutput >>

\* The filter applied once more to its own result, with the same arguments.
ApplyFilterAgain ==
    /\ pc = "filter_done"
    /\ toolOutput' = messages
    /\ messages' = MaybeFilterToNMostRecentImages(messages, keepArg, chunkArg)
    /\ pc' = "filter_twice"
    /\ UNCHANGED << loopVars, before, keepArg, chunkArg, toolInput >>

NextFilter ==
    \/ ApplyFilter
    \/ ApplyPruningStep
    \/ ApplyFilterAgain

SpecFilter == InitFilter /\ [][NextFilter]_vars

(***************************************************************************)
(* SpecCache: _inject_prompt_caching applied to every conversation of a    *)
(* bounded family, whatever annotations it carries beforehand.             *)
(***************************************************************************)
CacheMessageKinds ==
    { Message("assistant", TRUE, << TextBlock(<< "text" >>) >>),
      Message("user", FALSE, << >>) }
    \cup { Message("user", TRUE, << [TextBlock(<< "input" >>) EXCEPT !.cc = c] >>) :
             c \in BOOLEAN }

CacheConversations == SeqsUpTo(CacheMessageKinds, MaxCacheMsgs)

InitCache ==
    /\ loopIdle
    /\ messages \in CacheConversations
    /\ before = messages
    /\ keepArg = 0
    /\ chunkArg = 0
    /\ toolInput = << >>
    /\ toolOutput = << >>
    /\ pc = "cache_input"

ApplyInject ==
    /\ pc = "cache_input"
    /\ messages' = InjectPromptCaching(messages)
    /\ pc' = "cache_done"
    /\ UNCHANGED << loopVars, before, keepArg, chunkArg, toolInput, toolOutput >>

NextCache == ApplyInject

SpecCache == InitCache /\ [][NextCache]_vars

(***************************************************************************)
(* The screen-control adapter, ComputerTool20250124.__call__ and the       *)
(* BaseComputerTool.__call__ it delegates to.  A call is `planned` as the  *)
(* code runs it: the actuator calls it makes in order, each with the       *)
(* message of the ToolError its failure is wrapped into ("" when the       *)
(* exception is not caught), and how the call finishes when none fails.    *)
(* A message is the f-string of the source, placeholders included.         *)
(***************************************************************************)
MaxAmount == 2          \* SpecTool: largest scroll_amount
MaxDuration == 1        \* SpecTool: largest duration
MaxActuatorCalls == 4   \* SpecTool: the call of the actuator that may fail, 0 = none

Actions ==
    { "key", "type", "mouse_move", "left_click", "left_click_drag", "right_click",
      "middle_click", "double_click", "screenshot", "cursor_position", "run_command",
      "left_mouse_down", "left_mouse_up", "scroll", "hold_key", "wait",
      "triple_click", "copy_to_clipboard" }

ScrollDirection == { "up", "down", "left", "right" }

\* An optional number: Python's None, an int or a float.
Number(t, v) == [type |-> t, v |-> v]
NoNumber == Number("NoneType", 0)

\* The calls the model can make: text and coordinate given or not (a
\* coordinate inside or outside the target resolution), every direction and
\* one that is none, amounts and durations of every type and sign.
ToolCalls ==
    [ action : Actions,
      text : { "None", "str" },
      coordinate : { "None", "in_bounds", "out_of_bounds" },
      scroll_direction : ScrollDirection \cup { "None", "diagonal" },
      scroll_amount : { NoNumber, Number("float", 1) }
                      \cup { Number("int", v) : v \in -1..MaxAmount },
      duration : { NoNumber } \cup { Number("int", v) : v \in -1..MaxDuration } ]

Step(op, wrap) == [op |-> op, wrap |-> wrap]

\* raise ToolError(message) before or after the steps.
Raise(steps, message) ==
    [steps |-> steps, finish |-> "raise", text |-> message, take_screenshot |-> FALSE]

\* return await self.make_result(output, take_screenshot)
MakeResult(steps, output, take_screenshot) ==
    [steps |-> steps, finish |-> "make_result", text |-> output,
     take_screenshot |-> take_screenshot]

\* return await self.screenshot()
Screenshot(steps) ==
    [steps |-> steps, finish |-> "screenshot", text |-> "Screenshot taken",
     take_screenshot |-> TRUE]

\* validate_and_get_coordinates: the tuple checks and scale_coordinates, which
\* rejects a coordinate beyond the target resolution.
ValidateAndGetCoordinates(coordinate) ==
    IF coordinate = "out_of_bounds"
    THEN "Coordinates {x}, {y} are out of bounds"
    ELSE ""

\* BaseComputerTool.__call__
BaseCall(call) ==
    LET action == call.action
        text == call.text
        coordinate == call.coordinate
    IN
    IF action = "run_command"
    THEN MakeResult(<< Step("run_command", "") >>, "Command '{text}' run", FALSE)
    ELSE IF action \in { "mouse_move", "left_click_drag" }
    THEN IF coordinate = "None"
         THEN Raise(<< >>, "coordinate is required for {action}")
         ELSE IF text # "None"
         THEN Raise(<< >>, "text is not accepted for {action}")
         ELSE IF action = "mouse_move"
         THEN MakeResult(<< Step("to_screen_coordinates", ""),
                            Step("move_cursor", "Failed to move mouse: {e}") >>,
                         "Mouse moved to {x}, {y}", TRUE)
         ELSE MakeResult(<< Step("to_screen_coordinates", ""),
                            Step("cursor_position", "Failed to drag mouse: {e}"),
                            Step("drag_to", "Failed to drag mouse: {e}") >>,
                         "Mouse dragged from {current_pos} to {x}, {y}", TRUE)
    ELSE IF action \in { "key", "type" }
    THEN IF text = "None"
         THEN Raise(<< >>, "text is required for {action}")
         ELSE IF coordinate # "None"
         THEN Raise(<< >>, "coordinate is not accepted for {action}")
         ELSE IF action = "key"
         THEN MakeResult(<< Step("hotkey", "Failed to press key: {e}") >>,
                         "Key combination '{text}' pressed", TRUE)
         ELSE MakeResult(<< Step("type_text", "Failed to type text: {e}") >>,
                         "Typed chunk: {chunk}", TRUE)
    ELSE IF action \in { "left_click", "right_click", "double_click", "middle_click",
                         "screenshot", "cursor_position" }
    THEN IF text # "None"
         THEN Raise(<< >>, "text is not accepted for {action}")
         ELSE IF action = "screenshot"
         THEN Screenshot(<< >>)
         ELSE IF action = "cursor_position"
         THEN MakeResult(<< Step("cursor_position", "Failed to get cursor position: {e}"),
                            Step("to_screenshot_coordinates",
                                 "Failed to get cursor position: {e}") >>,
                         "X={x},Y={y}", TRUE)
         ELSE IF coordinate # "None"
         THEN MakeResult(
                << Step("to_screen_coordinates", ""),
                   Step("move_cursor", "Failed to move mouse to {x}, {y}: {e}"),
                   Step(IF action = "middle_click" THEN "left_click" ELSE action,
                        "Failed to perform {action}: {e}") >>,
                CASE action = "left_click" -> "Left click performed"
                  [] action = "right_click" -> "Right click performed"
                  [] action = "double_click" -> "Double click performed"
                  [] action = "middle_click" -> "Middle click performed",
                TRUE)
         \* Without a coordinate x and y are unbound when the click is called
         \* with them: the UnboundLocalError is caught by the except around it.
         ELSE Raise(<< >>, "Failed to perform {action}: {e}")
    ELSE Raise(<< >>, "Invalid action: {action}")

\* A variant of the scroll checks without the one on scroll_amount.
ScrollValidationDirectionOnly(call) ==
    IF call.scroll_direction \notin ScrollDirection
    THEN "scroll_direction must be one of: {get_args(ScrollDirection)}"
    ELSE ""

\* The two checks at the head of the scroll branch: the message of the
\* ToolError raised, "" when both pass.
ScrollValidation(call) ==
    IF call.scroll_direction \notin ScrollDirection
    THEN "scroll_direction must be one of: {get_args(ScrollDirection)}"
    ELSE IF ~(call.scroll_amount.type = "int" /\ call.scroll_amount.v >= 0)
    THEN "scroll_amount must be a non-negative integer"
    ELSE ""

\* ComputerTool20250124.__call__ (the Spotlight special case of `key`, which
\* shells out on the host, is left out)
ComputerTool20250124(call) ==
    LET action == call.action
        coordinate == call.coordinate
        scroll_direction == call.scroll_direction
        move == IF coordinate # "None"
                THEN << Step("move_cursor", "Failed to move mouse to {x}, {y}: {e}") >>
                ELSE << >>
    IN
    IF action \in { "left_mouse_down", "left_mouse_up" }
    THEN MakeResult(<< Step(action, "Failed to perform {action}: {e}") >>,
                    IF action = "left_mouse_down"
                    THEN "Left mouse button pressed down"
                    ELSE "Left mouse button released",
                    TRUE)
    ELSE IF action = "scroll"
    THEN IF ScrollValidation(call) # ""
         THEN Raise(<< >>, ScrollValidation(call))
         ELSE IF coordinate # "None" /\ ValidateAndGetCoordinates(coordinate) # ""
         THEN Raise(<< >>, ValidateAndGetCoordinates(coordinate))
         ELSE IF scroll_direction \in { "up", "down" }
         THEN MakeResult(move \o << Step(IF scroll_direction = "up"
                                         THEN "scroll_up" ELSE "scroll_down",
                                         "Failed to scroll: {e}") >>,
                         "Scrolled {scroll_direction} {scroll_amount} times", TRUE)
         \* left and right: nothing is scrolled; the `wait` test nested in this
         \* branch is false and the call falls through to the base class.
         ELSE LET base == BaseCall(call)
              IN [base EXCEPT !.steps = move \o base.steps]
    ELSE IF action = "triple_click"
    THEN IF coordinate # "None" /\ ValidateAndGetCoordinates(coordinate) # ""
         THEN Raise(<< >>, ValidateAndGetCoordinates(coordinate))
         ELSE IF coordinate # "None"
         THEN MakeResult(<< Step("move_cursor", "Failed to triple click: {e}"),
                            Step("double_click", "Failed to triple click: {e}") >>,
                         "Triple clicked at {x}, {y}", TRUE)
         ELSE MakeResult(<< Step("double_click", "Failed to triple click: {e}") >>,
                         "Triple clicked at current position", TRUE)
    ELSE IF action = "copy_to_clipboard"
    THEN MakeResult(<< Step("copy_to_clipboard", "Failed to copy to clipboard: {e}") >>,
                    "Copied to clipboard: {content}", TRUE)
    ELSE BaseCall(call)

\* The outcome of a planned call when the fail-th actuator call raises
\* (fail = 0: none does): the actuator calls made, and the ToolResult
\* returned or the exception raised.  make_result swallows the failure of
\* its screenshot; self.screenshot() wraps it into a ToolError.
RunPlan(plan, fail, shot) ==
    LET n == Len(plan.steps)
        ops == [i \in 1..n |-> plan.steps[i].op]
        none == ToolResult("", "", 0, "")
    IN
    IF fail \in 1..n
    THEN [kind |-> IF plan.steps[fail].wrap = "" THEN "Exception" ELSE "ToolError",
          error |-> IF plan.steps[fail].wrap = "" THEN "{e}" ELSE plan.steps[fail].wrap,
          result |-> none,
          calls |-> SubSeq(ops, 1, fail)]
    ELSE IF plan.finish = "raise"
    THEN [kind |-> "ToolError", error |-> plan.text, result |-> none, calls |-> ops]
    ELSE IF plan.finish = "screenshot"
    THEN IF fail = n + 1
         THEN [kind |-> "ToolError", error |-> "Failed to take screenshot: {e}",
               result |-> none, calls |-> Append(ops, "screenshot")]
         ELSE [kind |-> "result", error |-> "",
               result |-> ToolResult(plan.text, "", shot, ""),
               calls |-> Append(ops, "screenshot")]
    ELSE IF plan.take_screenshot
    THEN [kind |-> "result", error |-> "",
          result |-> ToolResult(plan.text, "", IF fail = n + 1 THEN 0 ELSE shot, ""),
          calls |-> Append(ops, "screenshot")]
    ELSE [kind |-> "result", error |-> "",
          result |-> ToolResult(plan.text, "", 0, ""), calls |-> ops]

(***************************************************************************)
(* SpecTool: one tool_use of the screen-control tool dispatched by         *)
(* sampling_loop on the server side, for every call of a bounded family    *)
(* and every actuator call that may fail.  The initial state is the        *)
(* session after UserTurn, SendRequest, ModelResponds and StartTool.       *)
(***************************************************************************)
FirstRequest == InjectPromptCaching(<< UserTextMessage >>)

InitTool ==
    /\ mode = "server_side"
    /\ provider = "anthropic"
    /\ only_n = RecentImages
    /\ messages = Append(FirstRequest, Message("assistant", TRUE, << ToolUseBlock(1) >>))
    /\ pc = "dispatch"
    /\ request = FirstRequest
    /\ response_params = << ToolUseBlock(1) >>
    /\ idx = 1
    /\ tool_result_content = << >>
    /\ inflight = {1}
    /\ started = {1}
    /\ lastExit = "running"
    /\ calls = 1
    /\ runStartLen = 1
    /\ lastAppend = messages
    /\ errorsObserved = 0
    /\ nextId = 1
    /\ totalCalls = 1
    /\ callerRef = ListId
    /\ before = << >>
    /\ keepArg = 0
    /\ chunkArg = 0
    /\ toolInput \in [call : ToolCalls, fail : 0..MaxActuatorCalls]
    /\ toolOutput = << >>

\* tool_collection.run(name, tool_input) on the call, and the collection of
\* its tool_result block: ToolReturns with the adapter spelled out.
RunTool ==
    /\ pc = "dispatch"
    /\ ~ClientSide
    /\ toolOutput = << >>
    /\ \E i \in inflight :
          LET o == RunPlan(ComputerTool20250124(toolInput.call), toolInput.fail,
                           response_params[i].id)
          IN /\ toolOutput' = o
             /\ tool_result_content' =
                    Append(tool_result_content,
                           MakeApiToolResult(ToolCollectionRun(o), response_params[i].id))
             /\ inflight' = inflight \ {i}
             /\ idx' = i + 1
    /\ UNCHANGED << mode, provider, only_n, messages, pc, request, response_params,
                    started, lastExit, calls, runStartLen, lastAppend,
                    errorsObserved, nextId, totalCalls, callerRef,
                    before, keepArg, chunkArg, toolInput >>

NextTool ==
    \/ RunTool
    \/ AppendToolResults

SpecTool == InitTool /\ [][NextTool]_vars

(***************************************************************************)
(* SpecResult: _make_api_tool_result applied to every ToolResult of a      *)
(* bounded family and every tool_use id.                                   *)
(***************************************************************************)
ToolResults ==
    { ToolResult(o, e, img, sys) :
        o \in { "", "out", "Screenshot taken" },
        e \in { "", "err", "scroll_amount must be a non-negative integer" },
        img \in 0..1,
        sys \in { "", "sys" } }

InitResult ==
    /\ loopIdle
    /\ messages = << >>
    /\ before = << >>
    /\ keepArg = 0
    /\ chunkArg = 0
    /\ toolInput \in [result : ToolResults, tool_use_id : 1..MaxToolUses]
    /\ toolOutput = << >>
    /\ pc = "result_input"

ApplyMakeApiToolResult ==
    /\ pc = "result_input"
    /\ toolOutput' = MakeApiToolResult(toolInput.result, toolInput.tool_use_id)
    /\ pc' = "result_done"
    /\ UNCHANGED << loopVars, messages, before, keepArg, chunkArg, toolInput >>

NextResult == ApplyMakeApiToolResult

SpecResult == InitResult /\ [][NextResult]_vars

(***************************************************************************)
(* Claims about the two policies.                                          *)
(***************************************************************************)
Max(a, b) == IF a >= b THEN a ELSE b

\* C9: for every conversation, keep k >= 1 and chunk c >= 1, after
\* _maybe_filter_to_n_most_recent_images(messages, k, c) the images that
\* remain are at most max(prior total, k), the number removed is a multiple
\* of c, at least k remain whenever the prior total was at least k, and
\* nothing is removed when the prior total is below k.
C9_FilterCounts ==
    (pc = "filter_done" /\ keepArg >= 1 /\ chunkArg >= 1) =>
        LET prior == TotalImages(before)
            remaining == TotalImages(messages)
        IN /\ remaining <= Max(prior, keepArg)
           /\ remaining <= prior
           /\ (prior - remaining) % chunkArg = 0
           /\ (prior >= keepArg => remaining >= keepArg)
           /\ (prior < keepArg => remaining = prior)

\* Reached: images were removed and, because of the rounding to chunks, more
\* than k remain.
C9_Witness ==
    /\ pc = "filter_done"
    /\ TotalImages(messages) < TotalImages(before)
    /\ TotalImages(messages) > keepArg
    /\ chunkArg > 1

\* The user messages with list content, the ones the injector looks at.
UserListIdx(msgs) == { i \in 1..Len(msgs) : msgs[i].role = "user" /\ msgs[i].isList }

\* 1 for the most recent user message with list content, 2 for the one before, ...
Recency(msgs, i) == Cardinality({ j \in UserListIdx(msgs) : j >= i })

Annotated(msgs) ==
    { i \in UserListIdx(msgs) : msgs[i].content[Len(msgs[i].content)].cc }

MostRecent(msgs, n) == { i \in UserListIdx(msgs) : Recency(msgs, i) <= n }

\* C10 as stated: for all conversations, whatever annotations the user
\* messages carried beforehand, after _inject_prompt_caching at most 3 user
\* messages carry cache_control and they are exactly the 3 most recent user
\* messages with list content (all of them when there are fewer).
C10_Original ==
    pc = "cache_done" =>
        /\ Cardinality(Annotated(messages)) <= Breakpoints
        /\ Annotated(messages) = MostRecent(messages, Breakpoints)

\* C10 amended: after _inject_prompt_caching the 3 most recent user messages
\* with list content carry cache_control, the 4th most recent does not, and
\* every older one keeps the annotation it had; so the annotated ones are
\* exactly the 3 most recent whenever no user message older than the 4th
\* most recent carried the annotation beforehand.
C10_Amended ==
    pc = "cache_done" =>
        /\ Len(messages) = Len(before)
        /\ UserListIdx(messages) = UserListIdx(before)
        /\ MostRecent(messages, Breakpoints) \subseteq Annotated(messages)
        /\ \A i \in UserListIdx(messages) :
              /\ Recency(messages, i) = Breakpoints + 1 => i \notin Annotated(messages)
              /\ Recency(messages, i) > Breakpoints + 1 =>
                    (i \in Annotated(messages) <=> i \in Annotated(before))
        /\ (Annotated(before) \subseteq MostRecent(before, Breakpoints + 1)) =>
              /\ Annotated(messages) = MostRecent(messages, Breakpoints)
              /\ Cardinality(Annotated(messages)) <= Breakpoints

\* Reached: a stale annotation on the 4th most recent user message has been
\* cleared and exactly the 3 most recent carry it.
C10_Witness ==
    /\ pc = "cache_done"
    /\ \E i \in Annotated(before) : Recency(before, i) = Breakpoints + 1
    /\ Annotated(before) \subseteq MostRecent(before, Breakpoints + 1)
    /\ Annotated(messages) = MostRecent(messages, Breakpoints)
    /\ Cardinality(Annotated(messages)) = Breakpoints

(***************************************************************************)
(* Claims about sampling_loop and its callers.                             *)
(***************************************************************************)
HasToolUse(params) == ToolPositions(params) # {}

ToolResultIds(content) ==
    LET results == SelectSeq(content, LAMBDA b : b.type = "tool_result")
    IN [i \in 1..Len(results) |-> results[i].id]

\* The step appends one user message holding exactly the tool_results of the
\* tool_use blocks of the current turn, in their order.
AppendsMatchingToolResults ==
    /\ Len(messages') = Len(messages) + 1
    /\ SubSeq(messages', 1, Len(messages)) = messages
    /\ LET m == messages'[Len(messages')]
       IN /\ m.role = "user"
          /\ m.isList
          /\ \A i \in 1..Len(m.content) : m.content[i].type = "tool_result"
          /\ ToolResultIds(m.content) = ToolUseIds(response_params)

\* The dispatch phase of the current turn ends with this step.
LeavesDispatch == pc = "dispatch" /\ pc' # "dispatch"

\* C1: sampling_loop ends only after a successful response without tool_use
\* (clean) or after a failed model call (provider error); a turn whose
\* response holds a tool_use block never ends the run: its dispatch phase
\* ends by appending the user message of tool_results, and the model is
\* called again.
C1_Original ==
    [][ /\ (pc # "await_user" /\ pc' = "await_user") =>
              \/ pc = "awaiting_model" /\ lastExit' = "provider_error"
              \/ pc = "dispatch" /\ ~HasToolUse(response_params) /\ lastExit' = "clean"
        /\ (LeavesDispatch /\ HasToolUse(response_params)) =>
              /\ pc' = "loop_top"
              /\ AppendsMatchingToolResults
        /\ (pc = "loop_top" /\ pc' # "loop_top") => pc' = "awaiting_model"
      ]_vars

\* C2: for every assistant turn whose response holds N >= 1 tool_use blocks,
\* the dispatcher is invoked exactly N times and the loop appends exactly one
\* user message of exactly N tool_result blocks, the i-th bound to the id of
\* the i-th tool_use block.
C2_Original ==
    [][ (LeavesDispatch /\ HasToolUse(response_params)) =>
            /\ started = ToolPositions(response_params)
            /\ Len(tool_result_content) = Cardinality(ToolPositions(response_params))
            /\ AppendsMatchingToolResults
            /\ Len(messages'[Len(messages')].content)
                 = Cardinality(ToolPositions(response_params))
      ]_vars

\* Every assistant message with a tool_use block is immediately followed by
\* one user message holding one tool_result per tool_use id, in order, and
\* that message only.
WellPaired(msgs) ==
    \A i \in 1..Len(msgs) :
        (msgs[i].role = "assistant" /\ HasToolUse(msgs[i].content)) =>
            /\ i < Len(msgs)
            /\ msgs[i + 1].role = "user"
            /\ ToolResultIds(msgs[i + 1].content) = ToolUseIds(msgs[i].content)
            /\ (i + 2 <= Len(msgs) => ToolResultIds(msgs[i + 2].content) = << >>)

\* C3: every conversation sent to the model and every conversation returned
\* by sampling_loop, over any sequence of runs, pairs each assistant tool_use
\* message with the user message of its tool_results.
C3_Original ==
    /\ WellPaired(request)
    /\ (pc = "await_user" /\ lastExit \in {"clean", "provider_error"}) =>
            WellPaired(messages)

\* A message without its cache_control annotations and its tool_result images.
StripPolicyEffects(msg) ==
    [msg EXCEPT !.content =
        [i \in 1..Len(msg.content) |->
            [msg.content[i] EXCEPT
                !.cc = FALSE,
                !.content = SelectSeq(msg.content[i].content,
                                      LAMBDA sub : sub.type # "image")]]]

SameUpToPolicies(a, b) ==
    /\ Len(a) = Len(b)
    /\ \A i \in 1..Len(a) : StripPolicyEffects(a[i]) = StripPolicyEffects(b[i])

ReturnedOnProviderError == pc = "await_user" /\ lastExit = "provider_error"

\* C4 as stated: on a provider error the observer gets the exception exactly
\* once, no tool is dispatched, no message is appended, and the returned
\* conversation has the same length and the same messages as after the last
\* successful append.
C4_Original ==
    ReturnedOnProviderError =>
        /\ errorsObserved = 1
        /\ started = {} /\ inflight = {}
        /\ Len(messages) = Len(lastAppend)
        /\ messages = lastAppend

\* C4 amended: ... the returned conversation has the same length as after the
\* last successful append and is the conversation that was sent in the
\* failing request: the messages of the last successful append, changed only
\* by what the policies of the failing iteration did in place (cache_control
\* annotations, pruned image sub-blocks).
C4_Amended ==
    ReturnedOnProviderError =>
        /\ errorsObserved = 1
        /\ started = {} /\ inflight = {}
        /\ Len(messages) = Len(lastAppend)
        /\ messages = request
        /\ messages = ApplyPolicies(lastAppend)
        /\ SameUpToPolicies(messages, lastAppend)

\* Reached: the second model call of a run fails, after a turn with tools.
C4_Witness ==
    /\ ReturnedOnProviderError
    /\ calls = 2
    /\ Len(messages) = runStartLen + 2
    /\ messages # lastAppend

\* C5: a failing tool call never aborts the loop: every tool execution that
\* ends leaves its tool_result in the collected results and the dispatch goes
\* on, and no run ends by an exception raised during a tool call.
C5_Original ==
    [][ /\ (pc = "dispatch" /\ inflight # {} /\ inflight' # inflight) =>
              /\ pc' = "dispatch"
              /\ Len(tool_result_content') = Len(tool_result_content) + 1
        /\ lastExit' # "exception"
      ]_vars

\* C6: a run that returns cleanly after m model calls has appended exactly
\* 2m - 1 messages, assistant and user tool_result messages alternating from
\* an assistant message to an assistant message; when the first response has
\* no tool_use block, one call was made and one message appended.
C6_CleanReturnLength ==
    (pc = "await_user" /\ lastExit = "clean") =>
        /\ calls >= 1
        /\ Len(messages) = runStartLen + 2 * calls - 1
        /\ \A j \in 1..(2 * calls - 1) :
              LET m == messages[runStartLen + j]
              IN IF j % 2 = 1
                 THEN m.role = "assistant"
                 ELSE /\ m.role = "user"
                      /\ ToolResultIds(m.content) # << >>
                      /\ Len(ToolResultIds(m.content)) = Len(m.content)
        /\ ~HasToolUse(messages[runStartLen + 1].content) =>
              (calls = 1 /\ Len(messages) = runStartLen + 1)

\* Reached: a clean return after two model calls.
C6_Witness ==
    /\ pc = "await_user"
    /\ lastExit = "clean"
    /\ calls = 2
    /\ Len(messages) = runStartLen + 3

\* The type and id of every block of a message: what identifies it.
Shape(msg) == [i \in 1..Len(msg.content) |-> << msg.content[i].type, msg.content[i].id >>]

\* C7: the conversation is append-only under sampling_loop: in every step,
\* on every way out, the number of messages never decreases, the messages
\* present keep their position and role, and the list the caller holds after
\* the run is the list it passed in.
C7_AppendOnly ==
    [][ /\ Len(messages') >= Len(messages)
        /\ \A i \in 1..Len(messages) :
              /\ messages'[i].role = messages[i].role
              /\ Shape(messages'[i]) = Shape(messages[i])
        /\ callerRef' = ListId
      ]_vars

\* Reached: a run ended by a tool failure with the messages of the run kept.
C7_Witness ==
    /\ pc = "await_user"
    /\ lastExit = "exception"
    /\ Len(messages) = runStartLen + 3
    /\ callerRef = ListId

\* C8: tools of one turn run strictly one after the other in block order: a
\* tool is started only when every earlier tool_use block of the turn has
\* returned and its tool_result is collected, so at most one execution is in
\* progress.
C8_Sequential ==
    /\ Cardinality(inflight) <= 1
    /\ \A i \in started :
          \A j \in ToolPositions(response_params) :
              j < i =>
                  /\ j \in started
                  /\ j \notin inflight
                  /\ \E k \in 1..Len(tool_result_content) :
                        tool_result_content[k].id = response_params[j].id
    /\ pc = "dispatch" =>
       \A k \in 1..Len(tool_result_content) :
          \E j \in started \ inflight :
              /\ tool_result_content[k].id = response_params[j].id
              /\ k = Cardinality({ t \in ToolPositions(response_params) : t <= j })

\* Reached: the second tool of a turn is running, the first one's result is in.
C8_Witness ==
    /\ pc = "dispatch"
    /\ Cardinality(started) = 2
    /\ Cardinality(inflight) = 1
    /\ Len(tool_result_content) = 1

(***************************************************************************)
(* Claims about image retention in the session.                            *)
(***************************************************************************)
RequestSent == pc = "awaiting_model"

ImagesOf(msg) ==
    [i \in 1..Len(msg.content) |->
        SelectSeq(msg.content[i].content, LAMBDA sub : sub.type = "image")]

\* C12: with prompt caching enabled (provider anthropic) no step of the loop
\* removes an image: the keep count is 0 at the pruning step of every
\* iteration, so the image sub-blocks of every tool_result already in the
\* history, and all its other sub-blocks, are the same after the iteration.
C12_CachingKeepsImages ==
    [][ provider = "anthropic" =>
            /\ Len(messages') >= Len(messages)
            /\ \A i \in 1..Len(messages) :
                  /\ ImagesOf(messages'[i]) = ImagesOf(messages[i])
                  /\ StripPolicyEffects(messages'[i]) = StripPolicyEffects(messages[i])
            /\ TotalImages(messages') >= TotalImages(messages)
      ]_vars

\* Reached: a request sent with caching enabled that holds more images than
\* the configured count.
C12_Witness ==
    /\ RequestSent
    /\ provider = "anthropic"
    /\ calls = 2
    /\ TotalImages(request) > only_n
    /\ TotalImages(messages) = TotalImages(lastAppend)

BlockTexts(b) ==
    IF b.isList
    THEN LET texts == SelectSeq(b.content, LAMBDA sub : sub.type = "text")
         IN [i \in 1..Len(texts) |-> texts[i].text]
    ELSE << b.text >>

WithSystem(sys, primary) == << "<system>", sys, "</system>\n", primary >>

\* C14 as stated: every ToolResult becomes one tool_result block bound to
\* the given id, is_error holds exactly when the error is non-empty, and the
\* system text, when present, is prepended to the primary text: the error
\* text when there is an error, the output text otherwise.
C14_Original ==
    pc = "result_done" =>
        LET r == toolInput.result
            b == toolOutput
            primary == IF r.error # "" THEN r.error ELSE r.output
        IN /\ b.type = "tool_result"
           /\ b.id = toolInput.tool_use_id
           /\ (b.is_error <=> r.error # "")
           /\ r.system # "" => BlockTexts(b) = << WithSystem(r.system, primary) >>

\* C14 amended: ... the system text, when present, is prepended to the
\* primary text when there is one: to the error text when the error is
\* non-empty (the block then carries that string only, output and image are
\* left out), otherwise to the output text when the output is non-empty;
\* a result with neither error nor output yields a block without any text,
\* its system text is dropped, and its image, if any, is the only content.
C14_Amended ==
    pc = "result_done" =>
        LET r == toolInput.result
            b == toolOutput
            prefix(t) == IF r.system # "" THEN WithSystem(r.system, t) ELSE << t >>
            image == IF r.base64_image # 0 THEN << ImageSub(r.base64_image) >> ELSE << >>
        IN /\ b.type = "tool_result"
           /\ b.id = toolInput.tool_use_id
           /\ (b.is_error <=> r.error # "")
           /\ r.error # "" =>
                 /\ ~b.isList
                 /\ b.text = prefix(r.error)
                 /\ b.content = << >>
           /\ (r.error = "" /\ r.output # "") =>
                 /\ b.isList
                 /\ b.content = << TextSub(prefix(r.output)) >> \o image
           /\ (r.error = "" /\ r.output = "") =>
                 /\ b.isList
                 /\ b.content = image
                 /\ BlockTexts(b) = << >>

\* Reached: a result with output, screenshot and system text, serialised with
\* the system text in front of the output.
C14_Witness ==
    /\ pc = "result_done"
    /\ toolInput.result.system # ""
    /\ toolInput.result.error = ""
    /\ toolInput.result.output # ""
    /\ toolInput.result.base64_image # 0
    /\ BlockTexts(toolOutput) =
          << WithSystem(toolInput.result.system, toolInput.result.output) >>
    /\ Len(toolOutput.content) = 2

(***************************************************************************)
(* Claims about the screen-control adapter.                                *)
(***************************************************************************)
\* The tool call has been run and its result collected.
ToolRan == pc \in { "dispatch", "loop_top" } /\ toolOutput # << >>

Range(f) == { f[i] : i \in DOMAIN f }

\* The parameter names that occur in the literal part of a message.
Mentions(message) ==
    CASE message = "scroll_direction must be one of: {get_args(ScrollDirection)}"
            -> { "scroll_direction" }
      [] message = "scroll_amount must be a non-negative integer" -> { "scroll_amount" }
      [] message = "coordinate is required for {action}" -> { "coordinate" }
      [] message = "coordinate is not accepted for {action}" -> { "coordinate" }
      [] message = "text is required for {action}" -> { "text" }
      [] message = "text is not accepted for {action}" -> { "text" }
      [] OTHER -> {}

Clicks == { "left_click", "right_click", "double_click", "triple_click", "middle_click" }

\* The actuator calls that press a mouse button.
ClickOps == { "left_click", "right_click", "double_click" }

TextForbidden == Clicks \cup { "cursor_position", "screenshot", "mouse_move", "left_click_drag" }

TakesCoordinate == Clicks \cup { "mouse_move", "left_click_drag", "scroll" }

AmountInvalid(call) == ~(call.scroll_amount.type = "int" /\ call.scroll_amount.v >= 0)

DirectionInvalid(call) == call.scroll_direction \notin ScrollDirection

DurationInvalid(call) == ~(call.duration.type = "int" /\ call.duration.v >= 0)

\* The parameter rules of the action table: a required field is missing, a
\* forbidden field is present, or a value is out of range.
ViolatesRules(call) ==
    \/ call.action \in { "mouse_move", "left_click_drag" } /\ call.coordinate = "None"
    \/ call.action \in { "key", "type", "hold_key", "run_command" } /\ call.text = "None"
    \/ call.action \in { "key", "type", "run_command" } /\ call.coordinate # "None"
    \/ call.action \in TextForbidden /\ call.text # "None"
    \/ call.action = "scroll" /\ (DirectionInvalid(call) \/ AmountInvalid(call))
    \/ call.action = "wait" /\ DurationInvalid(call)
    \/ call.action \in TakesCoordinate /\ call.coordinate = "out_of_bounds"

\* C15: whenever a call violates the parameter rules of its action, it
\* fails without any actuator call having been made.
C15_Original ==
    (ToolRan /\ ViolatesRules(toolInput.call)) =>
        /\ toolOutput.kind # "result"
        /\ toolOutput.calls = << >>

\* The failure of the call is in the collected tool_result, flagged as an
\* error and carrying the message, and the loop goes on to the next request.
ErrorResultCollected ==
    /\ Len(tool_result_content) = 1
    /\ tool_result_content[1].type = "tool_result"
    /\ tool_result_content[1].id = response_params[1].id
    /\ tool_result_content[1].is_error
    /\ tool_result_content[1].text = << toolOutput.error >>
    /\ lastExit = "running"
    /\ pc = "loop_top" =>
          /\ Len(messages) = Len(lastAppend)
          /\ messages[Len(messages)] = Message("user", TRUE, tool_result_content)

ValidationFailure(field) ==
    /\ toolOutput.kind = "ToolError"
    /\ field \in Mentions(toolOutput.error)
    /\ toolOutput.calls = << >>
    /\ ErrorResultCollected

\* C16 as stated: a scroll whose scroll_amount is negative or no integer
\* fails with an error naming scroll_amount, one whose scroll_direction is
\* missing or none of up, down, left, right fails with an error naming
\* scroll_direction; the failure becomes an error tool_result and the loop
\* does not terminate.
C16_Original ==
    (ToolRan /\ toolInput.call.action = "scroll") =>
        /\ AmountInvalid(toolInput.call) => ValidationFailure("scroll_amount")
        /\ DirectionInvalid(toolInput.call) => ValidationFailure("scroll_direction")

\* C16 amended: the direction is checked first: a scroll whose
\* scroll_direction is missing or none of the four fails with an error
\* naming scroll_direction (and not scroll_amount, whatever the amount); one
\* with a valid direction whose scroll_amount is negative or no integer
\* fails with an error naming scroll_amount; nothing is scrolled, the
\* failure becomes an error tool_result and the loop does not terminate.
C16_Amended ==
    (ToolRan /\ toolInput.call.action = "scroll") =>
        /\ DirectionInvalid(toolInput.call) =>
              /\ ValidationFailure("scroll_direction")
              /\ "scroll_amount" \notin Mentions(toolOutput.error)
        /\ (~DirectionInvalid(toolInput.call) /\ AmountInvalid(toolInput.call)) =>
              /\ ValidationFailure("scroll_amount")
              /\ "scroll_direction" \notin Mentions(toolOutput.error)

\* Reached: scroll up by -1 has failed naming scroll_amount, its error
\* tool_result is appended and the loop is about to call the model again.
C16_Witness ==
    /\ pc = "loop_top"
    /\ toolInput.call.action = "scroll"
    /\ toolInput.call.scroll_direction = "up"
    /\ toolInput.call.scroll_amount = Number("int", -1)
    /\ ValidationFailure("scroll_amount")
    /\ messages[Len(messages)].content[1].is_error

\* C17: for the five click actions the coordinate is optional: without
\* coordinate and text the click is performed where the cursor is and the
\* result is no error; with a coordinate the cursor is moved there first and
\* then the click is performed.
C17_Original ==
    (/\ ToolRan
     /\ toolInput.call.action \in Clicks
     /\ toolInput.call.text = "None"
     /\ toolInput.fail = 0) =>
        LET made == toolOutput.calls
        IN /\ toolInput.call.coordinate = "None" =>
                 /\ toolOutput.kind = "result"
                 /\ ~tool_result_content[1].is_error
                 /\ Range(made) \cap ClickOps # {}
                 /\ "move_cursor" \notin Range(made)
           /\ toolInput.call.coordinate = "in_bounds" =>
                 /\ toolOutput.kind = "result"
                 /\ \E i, j \in 1..Len(made) :
                       i < j /\ made[i] = "move_cursor" /\ made[j] \in ClickOps

\* C18: text is forbidden for the five click actions, cursor_position,
\* screenshot, mouse_move and left_click_drag: a call with text fails with a
\* validation failure naming text and makes no actuator call.
C18_Original ==
    (/\ ToolRan
     /\ toolInput.call.action \in TextForbidden
     /\ toolInput.call.text # "None") =>
        /\ toolOutput.kind = "ToolError"
        /\ "text" \in Mentions(toolOutput.error)
        /\ toolOutput.calls = << >>

\* C19: a scroll with a direction among up, down, left, right and a
\* non-negative integer amount is accepted for each direction: it scrolls
\* through the actuator and returns a result that is no error.
C19_Original ==
    (/\ ToolRan
     /\ toolInput.call.action = "scroll"
     /\ ~DirectionInvalid(toolInput.call)
     /\ ~AmountInvalid(toolInput.call)
     /\ toolInput.call.coordinate # "out_of_bounds"
     /\ toolInput.fail = 0) =>
        /\ toolOutput.kind = "result"
        /\ ~tool_result_content[1].is_error
        /\ Range(toolOutput.calls) \cap { "scroll_up", "scroll_down" } # {}

\* C20: wait with a duration >= 0 is valid and returns a result that is no
\* error; wait with a negative or missing duration fails with a validation
\* failure naming duration.
C20_Original ==
    (ToolRan /\ toolInput.call.action = "wait") =>
        /\ (~DurationInvalid(toolInput.call) /\ toolInput.fail = 0) =>
              /\ toolOutput.kind = "result"
              /\ ~tool_result_content[1].is_error
        /\ DurationInvalid(toolInput.call) =>
              /\ toolOutput.kind = "ToolError"
              /\ "duration" \in Mentions(toolOutput.error)

InvalidAction == "Invalid action: {action}"

\* C21: for each of key, type and hold_key a call without text fails with a
\* validation failure naming text; a call to key or type with a coordinate
\* fails with a validation failure naming coordinate; a call with text and
\* no coordinate is accepted as a valid action, not rejected as an invalid
\* action.  The coordinate case is read with text present: text is checked
\* first, so a call lacking text falls under the first case.
C21_Original ==
    (ToolRan /\ toolInput.call.action \in { "key", "type", "hold_key" }) =>
        /\ toolInput.call.text = "None" =>
              /\ toolOutput.kind = "ToolError"
              /\ "text" \in Mentions(toolOutput.error)
        /\ (toolInput.call.action \in { "key", "type" }
              /\ toolInput.call.text # "None"
              /\ toolInput.call.coordinate # "None") =>
              /\ toolOutput.kind = "ToolError"
              /\ "coordinate" \in Mentions(toolOutput.error)
        /\ (toolInput.call.text # "None" /\ toolInput.call.coordinate = "None") =>
              toolOutput.error # InvalidAction

\* C22: a run_command call without text, or with a coordinate, fails with a
\* validation failure naming the offending field, and the command is not
\* passed to the actuator.
C22_Original ==
    (ToolRan /\ toolInput.call.action = "run_command") =>
        /\ toolInput.call.text = "None" =>
              /\ toolOutput.kind = "ToolError"
              /\ "text" \in Mentions(toolOutput.error)
              /\ "run_command" \notin Range(toolOutput.calls)
        /\ toolInput.call.coordinate # "None" =>
              /\ toolOutput.kind = "ToolError"
              /\ "coordinate" \in Mentions(toolOutput.error)
              /\ "run_command" \notin Range(toolOutput.calls)

\* C23: with no actuator failure, every successful action other than
\* run_command and cursor_position returns a result with a screenshot
\* attached, taken after the action; a successful run_command and a
\* successful cursor_position return a result without a screenshot and take
\* none.
C23_Original ==
    (ToolRan /\ toolOutput.kind = "result" /\ toolInput.fail = 0) =>
        LET made == toolOutput.calls
        IN IF toolInput.call.action \in { "run_command", "cursor_position" }
           THEN /\ toolOutput.result.base64_image = 0
                /\ "screenshot" \notin Range(made)
           ELSE /\ toolOutput.result.base64_image # 0
                /\ made # << >>
                /\ made[Len(made)] = "screenshot"

\* The actuator calls that move the cursor, press a button or scroll.
MovesCursor == ClickOps \cup { "move_cursor", "drag_to", "scroll_up", "scroll_down" }

\* C24: for every action that carries a coordinate (mouse_move,
\* left_click_drag, the click actions, scroll) a logical coordinate beyond
\* the target resolution is rejected with an error before the cursor is
\* moved.
C24_Original ==
    (/\ ToolRan
     /\ toolInput.call.action \in TakesCoordinate
     /\ toolInput.call.coordinate = "out_of_bounds"
     /\ toolInput.fail = 0) =>
        /\ toolOutput.kind = "ToolError"
        /\ Range(toolOutput.calls) \cap MovesCursor = {}

(***************************************************************************)
(* SpecScale: scale_coordinates from the logical (API) frame to the screen *)
(* and back, for a family of physical resolutions and every logical        *)
(* coordinate along each axis.                                             *)
(***************************************************************************)
TargetWidth == 1366

TargetHeight == 768

MaxBeyond == 1

\* truncation of the quotient n / d instead of rounding
Truncate(n, d) == { n \div d }

\* round(n / d) for n >= 0, d > 0: the nearest integer.  Python rounds an
\* exact tie to the even neighbour; a quotient that is a tie only up to the
\* rounding of the float divisions lands on either side.
Round(n, d) ==
    LET q == n \div d
        r == n % d
    IN IF 2 * r < d THEN { q }
       ELSE IF 2 * r > d THEN { q + 1 }
       ELSE { q, q + 1 }

\* scale_coordinates(source, x, y) with self.width = width and
\* self.height = height: x / x_scaling_factor = x * width / target width,
\* x * x_scaling_factor = x * target width / width.
ScaleCoordinates(source, x, y, width, height) ==
    IF source = "api"
    THEN IF x > TargetWidth \/ y > TargetHeight
         THEN { [error |-> "Coordinates {x}, {y} are out of bounds", x |-> 0, y |-> 0] }
         ELSE { [error |-> "", x |-> rx, y |-> ry] :
                  rx \in Round(x * width, TargetWidth),
                  ry \in Round(y * height, TargetHeight) }
    ELSE { [error |-> "", x |-> rx, y |-> ry] :
             rx \in Round(x * TargetWidth, width),
             ry \in Round(y * TargetHeight, height) }

\* self.width, self.height: the detected screen size.
PhysicalResolutions ==
    { << 1024, 768 >>, << 1366, 768 >>, << 1920, 1080 >>, << 2560, 1440 >>,
      << 800, 600 >>, << 640, 480 >>, << 320, 240 >> }

\* Each axis is scaled on its own: every x with y = 0 and every y with x = 0.
LogicalCoordinates ==
    { << x, 0 >> : x \in 0..(TargetWidth + MaxBeyond) }
       \cup { << 0, y >> : y \in 0..(TargetHeight + MaxBeyond) }

InitScale ==
    /\ loopIdle
    /\ messages = << >>
    /\ before = << >>
    /\ keepArg = 0
    /\ chunkArg = 0
    /\ toolInput \in [resolution : PhysicalResolutions, coordinate : LogicalCoordinates]
    /\ toolOutput = << >>
    /\ pc = "scale_input"

ScaleApi ==
    /\ pc = "scale_input"
    /\ \E r \in ScaleCoordinates("api", toolInput.coordinate[1], toolInput.coordinate[2],
                                 toolInput.resolution[1], toolInput.resolution[2]) :
          toolOutput' = [screen |-> r, api |-> r]
    /\ pc' = "scale_api"
    /\ UNCHANGED << loopVars, messages, before, keepArg, chunkArg, toolInput >>

ScaleComputer ==
    /\ pc = "scale_api"
    /\ toolOutput.screen.error = ""
    /\ \E r \in ScaleCoordinates("computer", toolOutput.screen.x, toolOutput.screen.y,
                                 toolInput.resolution[1], toolInput.resolution[2]) :
          toolOutput' = [toolOutput EXCEPT !.api = r]
    /\ pc' = "scale_done"
    /\ UNCHANGED << loopVars, messages, before, keepArg, chunkArg, toolInput >>

NextScale == ScaleApi \/ ScaleComputer

SpecScale == InitScale /\ [][NextScale]_vars

Abs(n) == IF n >= 0 THEN n ELSE 0 - n

\* C25 as stated: for every physical resolution and every logical (x, y)
\* inside the target bounds, scale_coordinates(COMPUTER,
\* scale_coordinates(API, x, y)) differs from (x, y) by at most 1 on each
\* axis.
C25_Original ==
    pc = "scale_done" =>
        /\ Abs(toolOutput.api.x - toolInput.coordinate[1]) <= 1
        /\ Abs(toolOutput.api.y - toolInput.coordinate[2]) <= 1

\* C25 amended: the round trip differs from (x, y) by at most
\* 1/2 + target / (2 * physical) on each axis, which is at most 1 whenever
\* the physical size is more than a third of the target on that axis
\* (width >= 456, height >= 257); on a smaller screen it can be 2 or more.
C25_Amended ==
    pc = "scale_done" =>
        LET dx == Abs(toolOutput.api.x - toolInput.coordinate[1])
            dy == Abs(toolOutput.api.y - toolInput.coordinate[2])
            width == toolInput.resolution[1]
            height == toolInput.resolution[2]
        IN /\ 2 * width * dx <= width + TargetWidth
           /\ 2 * height * dy <= height + TargetHeight
           /\ 3 * width > TargetWidth => dx <= 1
           /\ 3 * height > TargetHeight => dy <= 1

\* Reached: on a 1024x768 screen the logical x = 2 goes to the screen x = 1
\* and comes back as 1.
C25_Witness ==
    /\ pc = "scale_done"
    /\ toolInput.resolution = << 1024, 768 >>
    /\ toolInput.coordinate = << 2, 0 >>
    /\ toolOutput.screen.x = 1
    /\ toolOutput.api.x = 1

\* The run was aborted in its dispatch phase and the caller has not appended
\* anything since.
Aborted == lastExit \in { "exception", "interrupt" }

\* C26: a run aborted in the middle of the dispatch phase (caller interrupt,
\* or an exception escaping a tool execution) leaves the conversation as
\* after the last completed append: the assistant message of the turn is its
\* last message, no tool_result of that turn, partial or complete, is in it,
\* and no earlier message was removed.
C26_AbortLeavesLastAppend ==
    Aborted =>
        LET n == Len(messages)
        IN /\ messages = lastAppend
           /\ n >= runStartLen + 1
           /\ messages[n] = Message("assistant", TRUE, response_params)
           /\ SubSeq(messages, 1, n - 1) = request
           /\ \A i \in 1..n :
                 \A t \in Range(ToolResultIds(messages[i].content)) :
                    t \notin Range(ToolUseIds(response_params))

\* Reached: the second tool execution of a turn raised after the first one
\* had returned; the collected tool_result is not in the conversation.
C26_Witness ==
    /\ lastExit = "exception"
    /\ pc = "await_user"
    /\ Len(tool_result_content) = 1
    /\ Cardinality(ToolPositions(response_params)) = 2
    /\ messages[Len(messages)].role = "assistant"

\* Reached: the terminal client was interrupted while a tool was running
\* in the second turn of a run.
C26_WitnessInterrupt ==
    /\ lastExit = "interrupt"
    /\ calls = 2
    /\ Len(messages) = runStartLen + 3

\* A message without its cache_control annotations.
WithoutCacheControl(msg) ==
    [msg EXCEPT !.content =
        [j \in 1..Len(msg.content) |-> [msg.content[j] EXCEPT !.cc = FALSE]]]

\* Between two states the annotation of message i changes at most on the
\* last content block, and only if it is a user message.
AnnotationChangesOnLastUserBlock(i) ==
    \A j \in 1..Len(messages[i].content) :
        messages'[i].content[j].cc # messages[i].content[j].cc =>
            /\ messages[i].role = "user"
            /\ j = Len(messages[i].content)

\* C27 as stated: under every provider and keep count, a step of the loop
\* changes nothing in a message already appended except the cache_control
\* annotation on the last content block of user messages.
C27_Original ==
    [][ /\ Len(messages') >= Len(messages)
        /\ \A i \in 1..Len(messages) :
              /\ WithoutCacheControl(messages'[i]) = WithoutCacheControl(messages[i])
              /\ AnnotationChangesOnLastUserBlock(i)
      ]_vars

\* C27 amended: a step of the loop changes in a message already appended
\* only (a) with prompt caching, the cache_control annotation on the last
\* content block of user messages, and (b) without prompt caching and with a
\* keep count, the image sub-blocks of tool_result blocks, which the pruning
\* removes; no message and no content block is removed and every other
\* sub-block stays, in order.
C27_Amended ==
    [][ /\ Len(messages') >= Len(messages)
        /\ \A i \in 1..Len(messages) :
              /\ StripPolicyEffects(messages'[i]) = StripPolicyEffects(messages[i])
              /\ AnnotationChangesOnLastUserBlock(i)
              /\ provider = "anthropic" => ImagesOf(messages'[i]) = ImagesOf(messages[i])
              /\ provider # "anthropic" =>
                    /\ \A j \in 1..Len(messages[i].content) :
                          /\ messages'[i].content[j].cc = messages[i].content[j].cc
                          /\ Len(messages'[i].content[j].content)
                                <= Len(messages[i].content[j].content)
                    /\ only_n = 0 => messages'[i] = messages[i]
      ]_vars

\* Reached: without prompt caching, the request of the second iteration was
\* sent with an image of an earlier tool_result removed.
C27_Witness ==
    /\ RequestSent
    /\ provider # "anthropic"
    /\ only_n >= 1
    /\ Len(messages) = Len(lastAppend)
    /\ TotalImages(messages) < TotalImages(lastAppend)
    /\ SameUpToPolicies(messages, lastAppend)

\* The images removed by the filter, counted.
ImagesDropped == TotalImages(before) - TotalImages(messages)

\* The sub-blocks of a content without its images numbered up to n.
WithoutFirstImages(content, n) ==
    SelectSeq(content, LAMBDA sub : sub.type # "image" \/ sub.data > n)

\* C28: image pruning removes oldest first: the images dropped are exactly
\* the first toRemove image sub-blocks in conversation order across all
\* tool_result blocks; every other sub-block is kept, the kept sub-blocks
\* keep their order, and no tool_result block and no message is removed.
C28_OldestFirst ==
    pc = "filter_done" =>
        LET toRemove == Max(0, ImagesToRemove(TotalImages(before), keepArg, chunkArg))
        IN /\ ImagesDropped = toRemove
           /\ Len(messages) = Len(before)
           /\ \A i \in 1..Len(before) :
                 /\ Len(messages[i].content) = Len(before[i].content)
                 /\ [messages[i] EXCEPT !.content = << >>]
                       = [before[i] EXCEPT !.content = << >>]
                 /\ \A j \in 1..Len(before[i].content) :
                       messages[i].content[j] =
                          [before[i].content[j] EXCEPT
                              !.content = WithoutFirstImages(@, toRemove)]

\* Reached: of three images the oldest one was dropped: the first tool_result
\* keeps its text sub-block and loses its image, the second keeps both of
\* its images.
C28_Witness ==
    /\ pc = "filter_done"
    /\ ImagesDropped = 1
    /\ Len(before) = 2
    /\ \A i \in 1..2 : Len(before[i].content) = 2
    /\ before[1].content[2].content = << TextSub(<< "out" >>), ImageSub(1) >>
    /\ messages[1].content[2].content = << TextSub(<< "out" >>) >>
    /\ messages[2].content[2].content = << ImageSub(2), ImageSub(3) >>

(***************************************************************************)
(* SpecTurns: a longer session of the websocket server and the terminal    *)
(* client, with one step per model call: the assistant message is either a *)
(* text (the run returns) or one tool_use whose dispatch is run to its end *)
(* within the step.                                                        *)
(***************************************************************************)
MaxTurnCalls == 5

TurnToolResults(id) ==
    { ToolResult("out", "", id, ""), ToolResult("", "err", 0, "") }

InitTurns ==
    /\ mode \in { "server_side", "client_side" }
    /\ provider = "anthropic"
    /\ only_n = RecentImages
    /\ messages = << >>
    /\ pc = "await_user"
    /\ request = << >>
    /\ response_params = << >>
    /\ idx = 1
    /\ tool_result_content = << >>
    /\ inflight = {}
    /\ started = {}
    /\ lastExit = "none"
    /\ calls = 0
    /\ runStartLen = 0
    /\ lastAppend = << >>
    /\ errorsObserved = 0
    /\ nextId = 0
    /\ totalCalls = 0
    /\ callerRef = ListId
    /\ before = << >>
    /\ keepArg = 0
    /\ chunkArg = 0
    /\ toolInput = << >>
    /\ toolOutput = << >>

\* The caller appends one user text message and runs sampling_loop.
TurnsUserTurn ==
    /\ pc = "await_user"
    /\ totalCalls < MaxTurnCalls
    /\ messages' = Append(messages, UserTextMessage)
    /\ lastAppend' = messages'
    /\ runStartLen' = Len(messages')
    /\ calls' = 0
    /\ lastExit' = "running"
    /\ pc' = "loop_top"
    /\ UNCHANGED << mode, provider, only_n, request, response_params, idx,
                    tool_result_content, inflight, started, errorsObserved, nextId,
                    totalCalls, callerRef, before, keepArg, chunkArg, toolInput,
                    toolOutput >>

\* The head of an iteration: the policies in place, then the request.
TurnsSendRequest ==
    /\ pc = "loop_top"
    /\ totalCalls < MaxTurnCalls
    /\ messages' = ApplyPolicies(messages)
    /\ request' = messages'
    /\ calls' = calls + 1
    /\ totalCalls' = totalCalls + 1
    /\ pc' = "awaiting_model"
    /\ UNCHANGED << mode, provider, only_n, response_params, idx, tool_result_content,
                    inflight, started, lastExit, runStartLen, lastAppend,
                    errorsObserved, nextId, callerRef, before, keepArg, chunkArg,
                    toolInput, toolOutput >>

\* The model call fails: the run returns the conversation as it is.
TurnsModelError ==
    /\ pc = "awaiting_model"
    /\ lastExit' = "provider_error"
    /\ pc' = "await_user"
    /\ UNCHANGED << mode, provider, only_n, messages, request, response_params, idx,
                    tool_result_content, inflight, started, calls, runStartLen,
                    lastAppend, errorsObserved, nextId, totalCalls, callerRef,
                    before, keepArg, chunkArg, toolInput, toolOutput >>

\* A response without tool_use: the assistant message is appended and the
\* run returns.
TurnsTextResponse ==
    /\ pc = "awaiting_model"
    /\ response_params' = << TextBlock(<< "reply" >>) >>
    /\ messages' = Append(messages, Message("assistant", TRUE, response_params'))
    /\ lastAppend' = messages'
    /\ tool_result_content' = << >>
    /\ lastExit' = "clean"
    /\ pc' = "await_user"
    /\ UNCHANGED << mode, provider, only_n, request, idx, inflight, started, calls,
                    runStartLen, errorsObserved, nextId, totalCalls, callerRef,
                    before, keepArg, chunkArg, toolInput, toolOutput >>

\* A response with one tool_use: the assistant message is appended, the tool
\* is run, and the user message of its tool_result is appended.
TurnsToolTurn ==
    /\ pc = "awaiting_model"
    /\ nextId' = nextId + 1
    /\ response_params' = << ToolUseBlock(nextId') >>
    /\ \E result \in TurnToolResults(nextId') :
          tool_result_content' = << MakeApiToolResult(result, nextId') >>
    /\ messages' = messages \o << Message("assistant", TRUE, response_params'),
                                  Message("user", TRUE, tool_result_content') >>
    /\ lastAppend' = messages'
    /\ pc' = "loop_top"
    /\ UNCHANGED << mode, provider, only_n, request, idx, inflight, started, lastExit,
                    calls, runStartLen, errorsObserved, totalCalls, callerRef,
                    before, keepArg, chunkArg, toolInput, toolOutput >>

\* A response with one tool_use whose client-side execution raises: the
\* assistant message is appended and the exception leaves the run.
TurnsToolRaises ==
    /\ pc = "awaiting_model"
    /\ ClientSide
    /\ nextId' = nextId + 1
    /\ response_params' = << ToolUseBlock(nextId') >>
    /\ messages' = Append(messages, Message("assistant", TRUE, response_params'))
    /\ lastAppend' = messages'
    /\ tool_result_content' = << >>
    /\ lastExit' = "exception"
    /\ pc' = "await_user"
    /\ UNCHANGED << mode, provider, only_n, request, idx, inflight, started, calls,
                    runStartLen, errorsObserved, totalCalls, callerRef,
                    before, keepArg, chunkArg, toolInput, toolOutput >>

NextTurns ==
    \/ TurnsUserTurn
    \/ TurnsSendRequest
    \/ TurnsModelError
    \/ TurnsTextResponse
    \/ TurnsToolTurn
    \/ TurnsToolRaises

SpecTurns == InitTurns /\ [][NextTurns]_vars

\* The positions of the user messages of a conversation.
UserPositions(msgs) == { i \in 1..Len(msgs) : msgs[i].role = "user" }

\* The n most recent of them.
RecentUsers(msgs, n) ==
    { i \in UserPositions(msgs) :
        Cardinality({ k \in UserPositions(msgs) : k > i }) < n }

Min(a, b) == IF a <= b THEN a ELSE b

\* The positions of the messages whose last content block is annotated.
AnnotatedMessages(msgs) ==
    { i \in 1..Len(msgs) :
        msgs[i].content # << >> /\ msgs[i].content[Len(msgs[i].content)].cc }

\* C29: with prompt caching enabled, over any sequence of runs in which the
\* caller appends one user message before each run, every request sent to
\* the model has the annotation on the last content block of exactly the
\* min(3, number of user messages) most recent user messages, and on no
\* other message or block.
C29_RecentUserMessagesAnnotated ==
    RequestSent =>
        /\ AnnotatedMessages(request) = RecentUsers(request, Breakpoints)
        /\ Cardinality(AnnotatedMessages(request))
              = Min(Breakpoints, Cardinality(UserPositions(request)))
        /\ \A i \in 1..Len(request) :
              \A j \in 1..Len(request[i].content) :
                 request[i].content[j].cc => j = Len(request[i].content)

\* Reached: the fifth request of a session, after a run that ended by an
\* exception: five user messages, the three most recent annotated, the
\* annotation of the two older ones cleared.
C29_Witness ==
    /\ RequestSent
    /\ totalCalls = 5
    /\ Cardinality(UserPositions(request)) = 5
    /\ \E i \in 1..(Len(request) - 1) :
          request[i].role = "assistant" /\ request[i + 1].content[1].type = "text"
             /\ request[i].content[1].type = "tool_use"
    /\ Cardinality(AnnotatedMessages(request)) = 3
    /\ \E i \in UserPositions(request) :
          /\ i \notin AnnotatedMessages(request)
          /\ request[i].content[1].type = "tool_result"

\* The capture of a screenshot was the actuator call that failed.
ScreenshotFailed ==
    /\ toolInput.fail >= 1
    /\ Len(toolOutput.calls) = toolInput.fail
    /\ toolOutput.calls[toolInput.fail] = "screenshot"

\* C30: whenever the screenshot capture of a tool call fails, for the
\* screenshot action itself or for the screenshot taken after another
\* action, the call's result is an error ToolResult with diagnostic text:
\* is_error is true in its tool_result.
C30_Original ==
    (ToolRan /\ ScreenshotFailed) =>
        /\ toolOutput.kind # "result"
        /\ toolOutput.error # ""
        /\ tool_result_content[1].is_error
        /\ tool_result_content[1].text # << >>

(***************************************************************************)
(* SpecDrag: one left_click_drag call with its start_coordinate and        *)
(* coordinate, for every position of the cursor before the call.           *)
(***************************************************************************)
MaxCoord == 2

ScreenScale == 2

\* Logical positions of a request.
Points == (0..MaxCoord) \X (0..MaxCoord)

\* Positions on the screen.
ScreenPoints == (0..(MaxCoord * ScreenScale)) \X (0..(MaxCoord * ScreenScale))

\* vm_controller.to_screen_coordinates: screenshot to screen coordinates.
ToScreenCoordinates(p) == << p[1] * ScreenScale, p[2] * ScreenScale >>

InitDrag ==
    /\ loopIdle
    /\ messages = << >>
    /\ before = << >>
    /\ keepArg = 0
    /\ chunkArg = 0
    /\ toolInput \in [cursor : ScreenPoints, start_coordinate : Points, coordinate : Points]
    /\ toolOutput = << >>
    /\ pc = "drag_input"

\* BaseComputerTool.__call__ on left_click_drag: start_coordinate arrives in
\* **kwargs and is not read; the drag is vm_controller.drag_to(x, y) from
\* where the cursor is.
LeftClickDrag ==
    /\ pc = "drag_input"
    /\ LET xy == ToScreenCoordinates(toolInput.coordinate)
           current_pos == toolInput.cursor
       IN toolOutput' = [calls |-> << "to_screen_coordinates", "cursor_position", "drag_to" >>,
                         drag_from |-> current_pos,
                         drag_to |-> xy,
                         output |-> "Mouse dragged from {current_pos} to {x}, {y}"]
    /\ pc' = "drag_done"
    /\ UNCHANGED << loopVars, messages, before, keepArg, chunkArg, toolInput >>

NextDrag == LeftClickDrag

SpecDrag == InitDrag /\ [][NextDrag]_vars

\* C31: left_click_drag drags from the supplied start_coordinate to the
\* supplied coordinate: the drag performed on the actuator starts at the
\* converted start_coordinate of the request, not at the position the cursor
\* had before the call.
C31_Original ==
    pc = "drag_done" =>
        /\ toolOutput.drag_from = ToScreenCoordinates(toolInput.start_coordinate)
        /\ toolOutput.drag_to = ToScreenCoordinates(toolInput.coordinate)

\* The types of the sub-blocks of a tool_result, in order.
SubTypes(b) == [i \in 1..Len(b.content) |-> b.content[i].type]

\* C32: a tool_result built from a ToolResult with a non-empty error carries
\* only the error text (with the system prefix when present): no image
\* sub-block and not the output text, even when the ToolResult has an output
\* or an image; one built from a ToolResult without error carries the output
\* text and then the image, each only when present.
C32_ErrorOnlyOrOutputThenImage ==
    pc = "result_done" =>
        LET r == toolInput.result
            b == toolOutput
        IN /\ r.error # "" =>
                 /\ b.is_error
                 /\ SubTypes(b) = << >>
                 /\ b.text = (IF r.system # "" THEN WithSystem(r.system, r.error)
                                               ELSE << r.error >>)
                 /\ r.output # "" => r.output \notin Range(b.text)
           /\ r.error = "" =>
                 /\ ~b.is_error
                 /\ b.text = << >>
                 /\ SubTypes(b) = (IF r.output # "" THEN << "text" >> ELSE << >>)
                                     \o (IF r.base64_image # 0 THEN << "image" >> ELSE << >>)
                 /\ r.output # "" =>
                       b.content[1].text[Len(b.content[1].text)] = r.output
                 /\ r.base64_image # 0 =>
                       b.content[Len(b.content)].data = r.base64_image

\* Reached: a ToolResult with error, output, image and system text was
\* serialised to an error block of the prefixed error text alone.
C32_Witness ==
    /\ pc = "result_done"
    /\ toolInput.result.error = "err"
    /\ toolInput.result.output = "out"
    /\ toolInput.result.base64_image = 1
    /\ toolInput.result.system = "sys"
    /\ toolOutput.is_error
    /\ toolOutput.content = << >>
    /\ toolOutput.text = WithSystem("sys", "err")

\* C33: image pruning is idempotent: for every conversation, keep k >= 1 and
\* chunk c >= 1, a second _maybe_filter_to_n_most_recent_images with the
\* same k and c leaves the conversation as the first one left it.
C33_FilterIdempotent ==
    pc = "filter_twice" => messages = toolOutput

\* Reached: the first application removed a chunk and left more than k
\* images; the second one found them and removed none.
C33_Witness ==
    /\ pc = "filter_twice"
    /\ TotalImages(toolOutput) < TotalImages(before)
    /\ TotalImages(toolOutput) > keepArg
    /\ messages = toolOutput

\* C34: after _maybe_filter_to_n_most_recent_images with keep k >= 1 and
\* chunk c >= 1 on a conversation of at least k images, fewer than k + c
\* images remain; the loop's pruning step passes c = k, so the conversation
\* it sends holds at most 2k - 1 images, however many it held before.
C34_RemainingBelowKeepPlusChunk ==
    /\ (pc = "filter_done" /\ TotalImages(before) >= keepArg) =>
          TotalImages(messages) < keepArg + chunkArg
    /\ (pc = "pruning_done" /\ keepArg >= 1 /\ chunkArg = keepArg) =>
          TotalImages(messages) <= 2 * keepArg - 1

\* Reached: the pruning step of the loop with k = c = 1 on four images left
\* 2k - 1 = 1 of them.
C34_Witness ==
    /\ pc = "pruning_done"
    /\ keepArg = 1
    /\ chunkArg = 1
    /\ TotalImages(before) = 4
    /\ TotalImages(messages) = 1

(***************************************************************************)
(* SpecResponse: one model response of every shape, thinking blocks        *)
(* included, parsed and appended by sampling_loop, and the dispatch of its *)
(* tools.  The initial state is the session after UserTurn and             *)
(* SendRequest; the response is kept in toolInput.                         *)
(***************************************************************************)
ResponseBlockKinds == ResponseKinds \cup { "thinking" }

ResponsesWithThinking(base) ==
    UNION { { [i \in 1..n |->
                  [kind |-> ks[i],
                   id |-> base + Cardinality({ j \in 1..i : ks[j] = "tool_use" })]] :
                ks \in [1..n -> ResponseBlockKinds] } : n \in 1..MaxBlocks }

InitResponse ==
    /\ mode \in { "server_side", "client_side" }
    /\ provider = "anthropic"
    /\ only_n = RecentImages
    /\ messages = FirstRequest
    /\ pc = "awaiting_model"
    /\ request = FirstRequest
    /\ response_params = << >>
    /\ idx = 1
    /\ tool_result_content = << >>
    /\ inflight = {}
    /\ started = {}
    /\ lastExit = "running"
    /\ calls = 1
    /\ runStartLen = 1
    /\ lastAppend = << UserTextMessage >>
    /\ errorsObserved = 0
    /\ nextId = 0
    /\ totalCalls = 1
    /\ callerRef = ListId
    /\ before = << >>
    /\ keepArg = 0
    /\ chunkArg = 0
    /\ toolInput \in ResponsesWithThinking(0)
    /\ toolOutput = << >>

\* ModelResponds on the response held in toolInput.
RespondWith ==
    /\ pc = "awaiting_model"
    /\ response_params' = ResponseToParams(toolInput)
    /\ nextId' = nextId + Cardinality(ToolPositions(response_params'))
    /\ messages' = Append(messages, Message("assistant", TRUE, response_params'))
    /\ lastAppend' = messages'
    /\ idx' = 1
    /\ tool_result_content' = << >>
    /\ started' = {}
    /\ pc' = "dispatch"
    /\ UNCHANGED << mode, provider, only_n, request, inflight, lastExit, calls,
                    runStartLen, errorsObserved, totalCalls, callerRef,
                    before, keepArg, chunkArg, toolInput, toolOutput >>

NextResponse ==
    \/ RespondWith
    \/ ObserveBlock
    \/ StartTool
    \/ ToolReturns
    \/ ToolRaises
    \/ ReturnClean
    \/ AppendToolResults

SpecResponse == InitResponse /\ [][NextResponse]_vars

\* The blocks of a response that are no text block with an empty text.
KeptBlocks(response) == SelectSeq(response, LAMBDA block : block.kind # "empty")

\* The block of the assistant message for a block of the response.
ParamOf(block) ==
    CASE block.kind = "text" -> TextBlock(<< "text" >>)
      [] block.kind = "tool_use" -> ToolUseBlock(block.id)
      [] block.kind = "thinking" -> ThinkingBlock

\* C35: the assistant message appended after a successful model call holds
\* the blocks of the response in their order, every tool_use block of the
\* response exactly once, and omits only the text blocks whose text is
\* empty; it is appended before any tool of that response is dispatched.
C35_AssistantMessageOfResponse ==
    /\ pc = "awaiting_model" => (started = {} /\ Len(messages) = runStartLen)
    /\ pc # "awaiting_model" =>
          LET kept == KeptBlocks(toolInput)
              msg == messages[runStartLen + 1]
              uses == SelectSeq(toolInput, LAMBDA block : block.kind = "tool_use")
          IN /\ Len(messages) >= runStartLen + 1
             /\ msg.role = "assistant"
             /\ msg.content = [i \in 1..Len(kept) |-> ParamOf(kept[i])]
             /\ ToolUseIds(msg.content) = [i \in 1..Len(uses) |-> uses[i].id]
             /\ \A i, j \in 1..Len(uses) : uses[i].id = uses[j].id => i = j
             /\ SubSeq(messages, 1, runStartLen) = request

\* Reached: the first tool of a response that began with an empty text
\* block is running; the assistant message holds the tool_use block alone.
C35_Witness ==
    /\ pc = "dispatch"
    /\ inflight = {1}
    /\ Len(toolInput) = 2
    /\ toolInput[1].kind = "empty"
    /\ toolInput[2].kind = "tool_use"
    /\ messages[Len(messages)] = Message("assistant", TRUE, << ToolUseBlock(1) >>)

(***************************************************************************)
(* SpecSocket: the websocket session with client-side tool execution.  The *)
(* client sends user texts whenever it likes and answers the tool_call     *)
(* messages it has received, one reply each, in their order; the server    *)
(* reads the frames of the socket in the order they were sent.             *)
(*   toolInput.inbox    frames sent by the client and not yet read         *)
(*   toolInput.pending  ids of the tool_call messages the client has not   *)
(*                      answered yet                                       *)
(*   toolInput.texts    user texts sent so far                             *)
(*   toolOutput         for every ToolResult built, the tool_use id it was *)
(*                      bound to and the tool_call the frame answered      *)
(***************************************************************************)
MaxTexts == 3

TextFrame == [kind |-> "text", answers |-> 0]

ReplyFrame(id) == [kind |-> "reply", answers |-> id]

InitSocket ==
    /\ mode = "client_side"
    /\ provider = "anthropic"
    /\ only_n = RecentImages
    /\ messages = << >>
    /\ pc = "await_user"
    /\ request = << >>
    /\ response_params = << >>
    /\ idx = 1
    /\ tool_result_content = << >>
    /\ inflight = {}
    /\ started = {}
    /\ lastExit = "none"
    /\ calls = 0
    /\ runStartLen = 0
    /\ lastAppend = << >>
    /\ errorsObserved = 0
    /\ nextId = 0
    /\ totalCalls = 0
    /\ callerRef = ListId
    /\ before = << >>
    /\ keepArg = 0
    /\ chunkArg = 0
    /\ toolInput = [inbox |-> << >>, pending |-> << >>, texts |-> 0]
    /\ toolOutput = << >>

\* The client sends a user text.
ClientSendsText ==
    /\ toolInput.texts < MaxTexts
    /\ toolInput' = [toolInput EXCEPT !.inbox = Append(@, TextFrame),
                                      !.texts = @ + 1]
    /\ UNCHANGED << loopVars, messages, pc, before, keepArg, chunkArg, toolOutput >>

\* The client answers the oldest tool_call it has not answered yet.
ClientReplies ==
    /\ toolInput.pending # << >>
    /\ toolInput' = [toolInput EXCEPT
                        !.inbox = Append(@, ReplyFrame(Head(toolInput.pending))),
                        !.pending = Tail(@)]
    /\ UNCHANGED << loopVars, messages, pc, before, keepArg, chunkArg, toolOutput >>

\* websocket_endpoint: receive_text takes the next frame, whatever it is,
\* appends it as a user message and runs sampling_loop up to the model call.
ReceiveText ==
    /\ pc = "await_user"
    /\ toolInput.inbox # << >>
    /\ toolInput' = [toolInput EXCEPT !.inbox = Tail(@)]
    /\ messages' = ApplyPolicies(Append(messages, UserTextMessage))
    /\ request' = messages'
    /\ lastAppend' = messages'
    /\ runStartLen' = Len(messages')
    /\ lastExit' = "running"
    /\ pc' = "awaiting_model"
    /\ UNCHANGED << mode, provider, only_n, response_params, idx, tool_result_content,
                    inflight, started, calls, errorsObserved, nextId, totalCalls,
                    callerRef, before, keepArg, chunkArg, toolOutput >>

\* A response without tool_use: the run returns.
SocketTextResponse ==
    /\ pc = "awaiting_model"
    /\ response_params' = << TextBlock(<< "text" >>) >>
    /\ messages' = Append(messages, Message("assistant", TRUE, response_params'))
    /\ lastAppend' = messages'
    /\ lastExit' = "clean"
    /\ pc' = "await_user"
    /\ UNCHANGED << mode, provider, only_n, request, idx, tool_result_content,
                    inflight, started, calls, runStartLen, errorsObserved, nextId,
                    totalCalls, callerRef, before, keepArg, chunkArg, toolInput,
                    toolOutput >>

\* A response with one tool_use: client_side_tool_execution sends the
\* tool_call with its tool_id and waits on receive_json.
SendToolCall ==
    /\ pc = "awaiting_model"
    /\ nextId < MaxToolUses
    /\ nextId' = nextId + 1
    /\ response_params' = << ToolUseBlock(nextId') >>
    /\ messages' = Append(messages, Message("assistant", TRUE, response_params'))
    /\ lastAppend' = messages'
    /\ toolInput' = [toolInput EXCEPT !.pending = Append(@, nextId')]
    /\ inflight' = {1}
    /\ pc' = "dispatch"
    /\ UNCHANGED << mode, provider, only_n, request, idx, tool_result_content,
                    started, lastExit, calls, runStartLen, errorsObserved,
                    totalCalls, callerRef, before, keepArg, chunkArg, toolOutput >>

\* receive_json takes the next frame: a reply becomes the ToolResult of the
\* tool_use that is waiting, its tool_result is appended and the model is
\* called again; a frame that is no JSON raises out of the run.
ReceiveJson ==
    /\ pc = "dispatch"
    /\ toolInput.inbox # << >>
    /\ LET frame == Head(toolInput.inbox)
           tool_id == response_params[1].id
       IN IF frame.kind = "reply"
          THEN /\ toolOutput' = Append(toolOutput,
                                       [tool_id |-> tool_id, answers |-> frame.answers])
               /\ tool_result_content' =
                     << MakeApiToolResult(
                           ClientSideToolExecution("client_result_with_screenshot",
                                                   frame.answers),
                           tool_id) >>
               /\ messages' = ApplyPolicies(
                                 Append(messages,
                                        Message("user", TRUE, tool_result_content')))
               /\ request' = messages'
               /\ lastAppend' = messages'
               /\ pc' = "awaiting_model"
               /\ UNCHANGED lastExit
          ELSE /\ lastExit' = "exception"
               /\ pc' = "await_user"
               /\ UNCHANGED << toolOutput, tool_result_content, messages, request,
                               lastAppend >>
    /\ toolInput' = [toolInput EXCEPT !.inbox = Tail(@)]
    /\ inflight' = {}
    /\ UNCHANGED << mode, provider, only_n, response_params, idx, started, calls,
                    runStartLen, errorsObserved, nextId, totalCalls, callerRef,
                    before, keepArg, chunkArg >>

NextSocket ==
    \/ ClientSendsText
    \/ ClientReplies
    \/ ReceiveText
    \/ SocketTextResponse
    \/ SendToolCall
    \/ ReceiveJson

SpecSocket == InitSocket /\ [][NextSocket]_vars

\* The tool_call messages sent whose reply has not been read off the socket.
Outstanding ==
    Range(toolInput.pending)
       \cup { toolInput.inbox[i].answers :
                i \in { j \in 1..Len(toolInput.inbox) : toolInput.inbox[j].kind = "reply" } }

\* C36: in client-side tool execution at most one tool_call is outstanding
\* at any time, and the ToolResult bound to tool_use id X is built from the
\* client's reply to the tool_call that carried tool_id X, for every
\* interleaving of client messages, a user text sent while a tool call is
\* pending included.
C36_Original ==
    /\ Cardinality(Outstanding) <= 1
    /\ \A i \in 1..Len(toolOutput) : toolOutput[i].answers = toolOutput[i].tool_id

\* ---------------------------------------------------------------------------
\* The recorder (src/recorder.py): one recording session.  start_recording
\* runs in the thread made by start_recording_endpoint, the mouse and the
\* keyboard listener run their callbacks in threads of their own, and
\* stop_recording runs in the thread of the stop request.  In this
\* specification toolInput holds the module globals of recorder.py and the
\* position of each thread, and toolOutput holds the list `actions`.
\* ---------------------------------------------------------------------------

\* The listener events of one session.
MaxEvents == 2

\* The keys the keyboard listener delivers: a printable character, a modifier
\* and the special keys on_key_press tells apart ("up" stands for the special
\* keys without a branch of their own).
RecorderKeys == { "a", "shift", "enter", "tab", "esc", "space", "up" }

\* hasattr(key, 'char') and key.char
HasChar(key) == key = "a"

\* One entry of the actions log: action, key, text and modifiers (timestamp,
\* application and window title play no part in what is logged).
ActionEntry(action, key, text, modifiers) ==
    [action |-> action, key |-> key, text |-> text, modifiers |-> modifiers]

\* The modifiers list built by on_mouse_click and on_key_press.
Modifiers(g) == IF g.shift_key_pressed THEN { "shift" } ELSE {}

\* "if current_text_field and current_text_buffer"
PendingText(g) == g.current_text_field /\ g.current_text_buffer # << >>

\* The log after the pending text input, if any, is appended as text_input.
FlushText(log, g) ==
    IF PendingText(g)
    THEN Append(log, ActionEntry("text_input", "", g.current_text_buffer, {}))
    ELSE log

\* The globals after a flush: buffer and field are cleared when it appended.
Flushed(g) ==
    IF PendingText(g)
    THEN [g EXCEPT !.current_text_buffer = << >>, !.current_text_field = FALSE]
    ELSE g

\* start_recording up to keyboard_listener.start(): actions is empty, both
\* listeners run, recording is still False, current_text_field is None and no
\* modifier is held.  typed is the history of the characters on_key_press
\* handled before the stop request; saved is the content of
\* semantic_actions.json.
InitRecorder ==
    /\ mode = "direct"
    /\ provider = "anthropic"
    /\ only_n = 0
    /\ messages = << >>
    /\ pc = "recorder"
    /\ request = << >>
    /\ response_params = << >>
    /\ idx = 1
    /\ tool_result_content = << >>
    /\ inflight = {}
    /\ started = {}
    /\ lastExit = "none"
    /\ calls = 0
    /\ runStartLen = 0
    /\ lastAppend = << >>
    /\ errorsObserved = 0
    /\ nextId = 0
    /\ totalCalls = 0
    /\ callerRef = ListId
    /\ before = << >>
    /\ keepArg = 0
    /\ chunkArg = 0
    /\ toolInput = [recording |-> FALSE,
                    listening |-> TRUE,
                    current_text_field |-> FALSE,
                    current_text_buffer |-> << >>,
                    shift_key_pressed |-> FALSE,
                    start |-> "listeners_started",
                    stop |-> "idle",
                    click |-> "idle",
                    key |-> "idle",
                    events |-> 0,
                    typed |-> << >>,
                    saved |-> << >>]
    /\ toolOutput = << >>

\* start_recording: recording = True.
SetRecording ==
    /\ toolInput.start = "listeners_started"
    /\ toolInput' = [toolInput EXCEPT !.recording = TRUE, !.start = "recording_set"]
    /\ UNCHANGED << loopVars, messages, pc, before, keepArg, chunkArg, toolOutput >>

\* start_recording: the session_start entry is appended, then ffmpeg is
\* started and the thread waits for it.
AppendSessionStart ==
    /\ toolInput.start = "recording_set"
    /\ toolOutput' = Append(toolOutput, ActionEntry("session_start", "", << >>, {}))
    /\ toolInput' = [toolInput EXCEPT !.start = "waiting"]
    /\ UNCHANGED << loopVars, messages, pc, before, keepArg, chunkArg >>

\* on_mouse_click, a press: "if not recording or not pressed: return".
MouseClickCheck ==
    /\ toolInput.listening
    /\ toolInput.click = "idle"
    /\ toolInput.events < MaxEvents
    /\ toolInput.recording
    /\ toolInput' = [toolInput EXCEPT !.click = "passed", !.events = @ + 1]
    /\ UNCHANGED << loopVars, messages, pc, before, keepArg, chunkArg, toolOutput >>

\* on_mouse_click after the check: the pending text input is flushed and the
\* click entry is appended.
MouseClickAppend ==
    /\ toolInput.click = "passed"
    /\ toolOutput' = Append(FlushText(toolOutput, toolInput),
                            ActionEntry("click", "", << >>, Modifiers(toolInput)))
    /\ toolInput' = [Flushed(toolInput) EXCEPT !.click = "idle"]
    /\ UNCHANGED << loopVars, messages, pc, before, keepArg, chunkArg >>

\* on_key_press: "if not recording: return".
KeyPressCheck ==
    /\ toolInput.listening
    /\ toolInput.key = "idle"
    /\ toolInput.events < MaxEvents
    /\ toolInput.recording
    /\ \E key \in RecorderKeys :
          toolInput' = [toolInput EXCEPT !.key = key, !.events = @ + 1]
    /\ UNCHANGED << loopVars, messages, pc, before, keepArg, chunkArg, toolOutput >>

\* The globals after on_key_press handled key.
KeyPressGlobals(g, key) ==
    LET h == IF key = "shift" THEN [g EXCEPT !.shift_key_pressed = TRUE] ELSE g
    IN  CASE HasChar(key) ->
               IF h.current_text_field
               THEN [h EXCEPT !.current_text_buffer = Append(@, key)]
               ELSE h
          [] key \in { "enter", "tab" } -> Flushed(h)
          [] key = "esc" ->
               IF h.current_text_field
               THEN [h EXCEPT !.current_text_buffer = << >>,
                              !.current_text_field = FALSE]
               ELSE h
          [] key = "space" ->
               IF h.current_text_field
               THEN [h EXCEPT !.current_text_buffer = Append(@, " ")]
               ELSE h
          [] OTHER -> h

\* The actions list after on_key_press handled key.
KeyPressLog(log, g, key) ==
    LET h == IF key = "shift" THEN [g EXCEPT !.shift_key_pressed = TRUE] ELSE g
        modifiers == Modifiers(h)
        key_press == ActionEntry("key_press", key, << >>, modifiers)
    IN  CASE HasChar(key) ->
               IF h.current_text_field THEN log
               ELSE IF modifiers # {}
                    THEN Append(log, ActionEntry("keyboard_shortcut", key, << >>,
                                                 modifiers))
                    ELSE log
          [] key = "enter" ->
               IF PendingText(h) THEN FlushText(log, h) ELSE Append(log, key_press)
          [] key = "tab" -> Append(FlushText(log, h), key_press)
          [] key = "space" ->
               IF h.current_text_field THEN log ELSE Append(log, key_press)
          [] OTHER -> Append(log, key_press)

\* on_key_press after the check.
KeyPressHandle ==
    /\ toolInput.key # "idle"
    /\ toolOutput' = KeyPressLog(toolOutput, toolInput, toolInput.key)
    /\ toolInput' = [KeyPressGlobals(toolInput, toolInput.key) EXCEPT
                        !.key = "idle",
                        !.typed = IF HasChar(toolInput.key) /\ toolInput.stop = "idle"
                                  THEN Append(@, toolInput.key) ELSE @]
    /\ UNCHANGED << loopVars, messages, pc, before, keepArg, chunkArg >>

\* on_key_release of a modifier: it is not guarded by recording.
KeyRelease ==
    /\ toolInput.listening
    /\ toolInput.shift_key_pressed
    /\ toolInput' = [toolInput EXCEPT !.shift_key_pressed = FALSE]
    /\ UNCHANGED << loopVars, messages, pc, before, keepArg, chunkArg, toolOutput >>

\* stop_recording, once ffmpeg runs: it is stopped and recording = False.
ClearRecording ==
    /\ toolInput.start = "waiting"
    /\ toolInput.stop = "idle"
    /\ toolInput' = [toolInput EXCEPT !.recording = FALSE, !.stop = "recording_cleared"]
    /\ UNCHANGED << loopVars, messages, pc, before, keepArg, chunkArg, toolOutput >>

\* stop_recording: the session_end entry is appended.
AppendSessionEnd ==
    /\ toolInput.stop = "recording_cleared"
    /\ toolOutput' = Append(toolOutput, ActionEntry("session_end", "", << >>, {}))
    /\ toolInput' = [toolInput EXCEPT !.stop = "session_ended"]
    /\ UNCHANGED << loopVars, messages, pc, before, keepArg, chunkArg >>

\* stop_recording: both listeners are stopped; no new event is delivered, a
\* callback that already runs goes on.
StopListeners ==
    /\ toolInput.stop = "session_ended"
    /\ toolInput' = [toolInput EXCEPT !.listening = FALSE, !.stop = "listeners_stopped"]
    /\ UNCHANGED << loopVars, messages, pc, before, keepArg, chunkArg, toolOutput >>

\* save_actions_to_json: the pending text input is flushed, the session_info
\* entry is appended and the list is written to semantic_actions.json.
SaveActionsToJson ==
    /\ toolInput.stop = "listeners_stopped"
    /\ toolOutput' = Append(FlushText(toolOutput, toolInput),
                            ActionEntry("session_info", "", << >>, {}))
    /\ toolInput' = [toolInput EXCEPT !.saved = toolOutput', !.stop = "saved"]
    /\ UNCHANGED << loopVars, messages, pc, before, keepArg, chunkArg >>

NextRecorder ==
    \/ SetRecording
    \/ AppendSessionStart
    \/ MouseClickCheck
    \/ MouseClickAppend
    \/ KeyPressCheck
    \/ KeyPressHandle
    \/ KeyRelease
    \/ ClearRecording
    \/ AppendSessionEnd
    \/ StopListeners
    \/ SaveActionsToJson

SpecRecorder == InitRecorder /\ [][NextRecorder]_vars

\* The saved log has session_end at place i and only session_info after it.
EndsAt(log, i) ==
    /\ log[i].action = "session_end"
    /\ Len(log) = i + 1
    /\ log[i + 1].action = "session_info"

\* C37: under every interleaving of the recorder thread with the listener
\* callbacks and the stop request, the saved actions log starts with the
\* session_start entry and session_end is followed only by the session_info
\* entry: no click or key action is appended after it.
C37_Original ==
    toolInput.stop = "saved" =>
        /\ toolInput.saved[1].action = "session_start"
        /\ \E i \in 1..Len(toolInput.saved) : EndsAt(toolInput.saved, i)

\* The character c is in the saved log: as the key of a keyboard_shortcut
\* entry or inside the text of a text_input entry.
Reflected(c, log) ==
    \E i \in 1..Len(log) :
        \/ log[i].action = "keyboard_shortcut" /\ log[i].key = c
        \/ log[i].action = "text_input" /\ c \in Range(log[i].text)

\* C38: every printable character key pressed while recording is active is
\* in the saved actions log, as a keyboard_shortcut entry or inside the text
\* of a text_input entry.
C38_Original ==
    toolInput.stop = "saved" =>
        \A n \in 1..Len(toolInput.typed) :
            Reflected(toolInput.typed[n], toolInput.saved)

====
